---- MODULE Spec2Model ----
\* bird_mach ("Mach"): audio -> log-mel frames -> stride reduction -> UMAP
\* projection -> figures, the /visualize request handler and the command-line
\* tool around it, and the library calls beside it (summarize, the CSV and
\* JSON exporters, the configuration objects).
\*
\* Arrays are modelled along axis 0: a 1-D array is a sequence of values, a
\* feature matrix is a sequence of rows (each row an opaque value).  Python
\* indices are 0-based, TLA+ sequences 1-based: Python a[i] is a[i + 1] here.
EXTENDS Integers, Sequences, FiniteSets, TLC

\* ---------------------------------------------------------------- bounds
MaxFrames == 4          \* longest array handed to stride_downsample
MaxStride == 4          \* largest stride handed to stride_downsample
MaxDim == 4             \* largest extent of one axis of a compute_umap input
MaxNeighbors == 5       \* largest UmapConfig.n_neighbors handed to compute_umap
NumTmpNames == 2        \* names the temporary directory can hand out
MaxSamples == 6         \* longest of the short waveforms handed to the extractor
MaxRows == 2            \* longest array handed to features_to_csv
MaxCols == 2            \* most columns handed to features_to_csv
MaxLen == 2             \* longest list or array inside a record handed to to_json
MaxBound == 3           \* largest magnitude of a bound handed to clamp
MaxTree == 4            \* most entries in the directory handed to batch_process

VARIABLES
    \* ---- Frame Reducer call (embedding.stride_downsample)
    X,              \* feature matrix: sequence of rows
    times_s,        \* per-frame time array
    energy,         \* per-frame energy array
    stride,         \* the stride argument
    reduced,        \* the returned tuple <<X, times_s, energy>> (<<>> before the call)
    rpc,            \* "call" before stride_downsample ran, "returned" after
    \* ---- Embedding Engine call (embedding.compute_umap_3d / compute_umap_2d)
    umapX,          \* the input array, by its shape: [shape |-> <<d0, d1, ...>>]
    umapCfg,        \* the UmapConfig
    out3d,          \* outcome of compute_umap_3d(umapX, umapCfg)
    out2d,          \* outcome of compute_umap_2d(umapX, umapCfg)
    \* ---- /visualize requests (webapp.visualize)
    req,            \* per request: its form, its position and its locals
    tmpdir,         \* the temporary directory: name -> file
    \* ---- one run of a command-line script (scripts/bird_sound_3d.main or
    \* scripts/batch_process.main)
    cli,            \* its arguments, its position and its locals
    \* ---- one call of a library function (exporters, analysis, embedding)
    call,           \* the function called and its arguments
    ret             \* what the call returned or raised (NoReturn before it)

varsReduce == <<X, times_s, energy, stride, reduced, rpc>>
varsUmap == <<umapX, umapCfg, out3d, out2d>>
varsWeb == <<req, tmpdir>>
varsCli == <<cli>>
varsLib == <<call, ret>>
vars == <<varsReduce, varsUmap, varsWeb, varsCli, varsLib>>

\* ------------------------------------------------------ helper operators
SeqsUpTo(S, n) == UNION {[1..k -> S] : k \in 0..n}

\* ============================================================ Frame Reducer
\* numpy basic slicing a[::step] for step > 0: start 0, stop n, and
\* CPython's slice length (stop - start - 1) // step + 1 when start < stop.
SliceLen(n, step) == IF n > 0 THEN ((n - 1) \div step) + 1 ELSE 0

\* a slice that rounds the length down (n // step) and loses the last frame
BadStepSlice(a, step) ==
    [i \in 1..(Len(a) \div step) |-> a[(i - 1) * step + 1]]

StepSlice(a, step) ==
    [i \in 1..SliceLen(Len(a), step) |-> a[(i - 1) * step + 1]]

\* a stride_downsample whose early return hands the two scalar arrays back
\* in the wrong order
Bad_stride_downsample_swapped(pX, pT, pE, pStride) ==
    IF pStride <= 1
    THEN <<pX, pE, pT>>
    ELSE <<StepSlice(pX, pStride), StepSlice(pT, pStride), StepSlice(pE, pStride)>>

\* a stride_downsample that thins the feature matrix and the times but
\* forgets the energy array
Bad_stride_downsample_misaligned(pX, pT, pE, pStride) ==
    IF pStride <= 1
    THEN <<pX, pT, pE>>
    ELSE <<StepSlice(pX, pStride), StepSlice(pT, pStride), pE>>

\* a stride_downsample that returns early only for stride = 1 and slices
\* otherwise: a[::-1] is the array reversed, and a zero step is refused by
\* the slice, here standing as three empty arrays
Bad_stride_downsample_onlyOneReturnsEarly(pX, pT, pE, pStride) ==
    LET Reversed(a) == [i \in 1..Len(a) |-> a[Len(a) + 1 - i]]
    IN  IF pStride = 1 THEN <<pX, pT, pE>>
        ELSE IF pStride = 0 THEN <<<<>>, <<>>, <<>>>>
        ELSE IF pStride < 0 THEN <<Reversed(pX), Reversed(pT), Reversed(pE)>>
        ELSE <<StepSlice(pX, pStride), StepSlice(pT, pStride), StepSlice(pE, pStride)>>

stride_downsample(pX, pT, pE, pStride) ==
    IF pStride <= 1
    THEN <<pX, pT, pE>>
    ELSE <<StepSlice(pX, pStride), StepSlice(pT, pStride), StepSlice(pE, pStride)>>

\* ========================================================= Embedding Engine
\* min_dist is a float in the code; here it is counted in tenths (0.1 is 1)
DEFAULT_UMAP_CONFIG ==
    [n_neighbors |-> 15, min_dist |-> 1, metric |-> "cosine", random_state |-> 42]

UmapConfig(n) == [DEFAULT_UMAP_CONFIG EXCEPT !.n_neighbors = n]

NoOutcome == [kind |-> "none"]

\* umap.UMAP(n_components=c, ...).fit_transform(X): the manifold-projection
\* collaborator, taken by its contract: one row per input row, c columns.
fit_transform(pX, n_components) ==
    [kind |-> "embedding", shape |-> <<pX.shape[1], n_components>>, fit_calls |-> 1]

ShapeError(pX) ==
    [kind |-> "ValueError", text |-> "Expected 2D feature matrix, got shape",
     shape |-> pX.shape, fit_calls |-> 0]

TooFewFramesError(pX, cfg) ==
    [kind |-> "ValueError", text |-> "Too few frames",
     frames |-> pX.shape[1], n_neighbors |-> cfg.n_neighbors,
     advice |-> {"Increase stride", "provide a longer recording"},
     fit_calls |-> 0]

ndim(pX) == Len(pX.shape)

\* a compute_umap_3d whose row-count guard is off by one (<= for <)
Bad_compute_umap_3d_offByOne(pX, cfg) ==
    IF ndim(pX) # 2 THEN ShapeError(pX)
    ELSE IF pX.shape[1] <= cfg.n_neighbors THEN TooFewFramesError(pX, cfg)
    ELSE fit_transform(pX, 3)

\* a compute_umap_3d that skips the dimensionality check
Bad_compute_umap_3d_noNdimCheck(pX, cfg) ==
    IF ndim(pX) = 0 THEN [kind |-> "IndexError", fit_calls |-> 0]
    ELSE IF pX.shape[1] < cfg.n_neighbors THEN TooFewFramesError(pX, cfg)
    ELSE fit_transform(pX, 3)

compute_umap_3d(pX, cfg) ==
    IF ndim(pX) # 2 THEN ShapeError(pX)
    ELSE IF pX.shape[1] < cfg.n_neighbors THEN TooFewFramesError(pX, cfg)
    ELSE fit_transform(pX, 3)

\* a compute_umap_2d copied from compute_umap_3d with n_components left at 3
Bad_compute_umap_2d_threeColumns(pX, cfg) ==
    IF ndim(pX) # 2 THEN ShapeError(pX)
    ELSE IF pX.shape[1] < cfg.n_neighbors THEN TooFewFramesError(pX, cfg)
    ELSE fit_transform(pX, 3)

compute_umap_2d(pX, cfg) ==
    IF ndim(pX) # 2 THEN ShapeError(pX)
    ELSE IF pX.shape[1] < cfg.n_neighbors THEN TooFewFramesError(pX, cfg)
    ELSE fit_transform(pX, 2)

\* ===================================================== /visualize (webapp)
\* the two limits of constants.py, and the read limit of the URL fetch
MAX_UPLOAD_SIZE_MB == 50
MAX_AUDIO_DURATION_S == 600
URL_READ_LIMIT_MB == 50

DEFAULT_AUDIO_FEATURE_CONFIG ==
    [sr |-> 22050, n_fft |-> 2048, hop_length |-> 512, n_mels |-> 128,
     fmin |-> 20, fmax |-> "None"]

SUPPORTED_COLORSCALES ==
    {"Turbo", "Viridis", "Plasma", "Inferno", "Magma", "Cividis", "Hot", "Electric"}

Max(a, b) == IF a >= b THEN a ELSE b
Min(a, b) == IF a <= b THEN a ELSE b

\* validators.validate_file_size, on a size in bytes
validate_file_size(size_bytes) == size_bytes <= MAX_UPLOAD_SIZE_MB * 1024 * 1024

\* ---- audio files.  A clip is a file somebody can submit: its size in MB,
\* the duration it decodes to in seconds, and whether a decoder accepts it.
\* Bytes are a prefix of a clip: [clip |-> its name, size_mb |-> how much].
Clips ==
    { [name |-> "empty", size_mb |-> 0, duration_s |-> 0, decodable |-> FALSE],
      [name |-> "corrupt", size_mb |-> 1, duration_s |-> 0, decodable |-> FALSE],
      [name |-> "no_samples", size_mb |-> 1, duration_s |-> 0, decodable |-> TRUE],
      [name |-> "short", size_mb |-> 1, duration_s |-> 1, decodable |-> TRUE],
      [name |-> "long", size_mb |-> 2, duration_s |-> MAX_AUDIO_DURATION_S + 1,
       decodable |-> TRUE],
      [name |-> "big", size_mb |-> MAX_UPLOAD_SIZE_MB + 1, duration_s |-> 290,
       decodable |-> TRUE] }

ClipNamed(n) == CHOOSE c \in Clips : c.name = n

AllBytes(clip) == [clip |-> clip.name, size_mb |-> clip.size_mb]

EmptyBytes == [clip |-> "empty", size_mb |-> 0]

\* resp.read(limit): at most `limit` MB of the body
ReadAtMost(bytes, limit_mb) == [bytes EXCEPT !.size_mb = Min(@, limit_mb)]

\* ---- file names: Path(name).suffix is kept as a field
EmptyName == [stem |-> "", suffix |-> ""]
DefaultName == [stem |-> "audio", suffix |-> ""]
RemoteDefaultName == [stem |-> "remote_audio", suffix |-> ".wav"]

\* ---- the form of one request
NoUpload == [filename |-> EmptyName, present |-> FALSE]

Uploads ==
    { NoUpload,
      [filename |-> EmptyName, present |-> TRUE],
      [filename |-> [stem |-> "bird", suffix |-> ".flac"], present |-> TRUE] }

\* audio_url after strip(): blank, or a URL by its scheme, the last
\* component of its path, and whether the host answers
BlankUrl == [blank |-> TRUE, scheme |-> "", name |-> EmptyName, up |-> FALSE]

Urls ==
    { BlankUrl,
      [blank |-> FALSE, scheme |-> "https", name |-> [stem |-> "song", suffix |-> ""],
       up |-> TRUE],
      [blank |-> FALSE, scheme |-> "ftp", name |-> [stem |-> "song", suffix |-> ".ogg"],
       up |-> TRUE],
      [blank |-> FALSE, scheme |-> "http", name |-> EmptyName, up |-> FALSE] }

Forms ==
    [upload : Uploads, audio_url : Urls, clip : Clips,
     stride : {0, 2, 51}, n_neighbors : {1, 15, 201}, min_dist : {-1, 1, 11},
     color_by : {"time", "energy", "flatness", "pitch"}, colorscale : {"Turbo", "bogus"},
     multi_view : BOOLEAN]

\* the forms of the two-request runs: a named upload, a reachable URL or no
\* source at all, with the default rendering options
ConcurrentForms ==
    { f \in Forms :
        /\ f.stride = 2 /\ f.min_dist = 1 /\ f.n_neighbors \in {15, 201}
        /\ f.color_by = "time" /\ f.colorscale = "Turbo" /\ ~f.multi_view
        /\ f.clip.name \in {"corrupt", "short", "big"}
        /\ \/ f.upload.filename.stem = "bird" /\ f.audio_url = BlankUrl
           \/ f.upload = NoUpload /\ f.audio_url.scheme = "https"
           \/ f.upload = NoUpload /\ f.audio_url = BlankUrl /\ f.clip.name = "short" }

\* ---- webapp._fetch_audio_from_url: the outcome of fetching `url`, whose
\* host serves `clip`
fetch_audio_from_url(url, clip) ==
    IF url.scheme \notin {"http", "https"}
    THEN [kind |-> "ValueError", text |-> "Only http/https URLs are supported"]
    ELSE IF ~url.up
    THEN [kind |-> "URLError", text |-> "urlopen error"]
    ELSE [kind |-> "ok",
          data |-> ReadAtMost(AllBytes(clip), URL_READ_LIMIT_MB),
          filename |-> IF url.name = EmptyName THEN RemoteDefaultName ELSE url.name]

\* ---- the temporary directory
TmpNames == 1..NumTmpNames
NoPath == 0
NoFile == [exists |-> FALSE, data |-> EmptyBytes, owner |-> 0, suffix |-> ""]

\* a temporary-file call that writes every upload to one fixed path
BadFreeNames(fs) == {1}

\* tempfile.NamedTemporaryFile opens with O_EXCL: a name no file has
FreeNames(fs) == {n \in TmpNames : ~fs[n].exists}

\* a loader without the `y.size == 0` check: it hands back whatever
\* librosa.load decoded, an empty waveform included
Bad_load_audio_mono_from_path_noEmptyCheck(fs, audio_path, sr) ==
    IF ~fs[audio_path].exists
    THEN [kind |-> "FileNotFoundError", text |-> "Input audio not found",
          decoded |-> FALSE]
    ELSE LET bytes == fs[audio_path].data
             clip == ClipNamed(bytes.clip)
         IN IF ~clip.decodable
            THEN [kind |-> "DecodeError", text |-> "librosa.load failed",
                  decoded |-> TRUE]
            ELSE [kind |-> "ok",
                  y |-> [clip |-> bytes.clip,
                         samples |-> (clip.duration_s * sr * bytes.size_mb)
                                         \div clip.size_mb],
                  sr |-> sr, decoded |-> TRUE]

\* ---- embedding.load_audio_mono_from_path on a directory `fs`; `decoded`
\* tells whether librosa.load was called on the way to the outcome
load_audio_mono_from_path(fs, audio_path, sr) ==
    IF ~fs[audio_path].exists
    THEN [kind |-> "FileNotFoundError", text |-> "Input audio not found",
          decoded |-> FALSE]
    ELSE LET bytes == fs[audio_path].data
             clip == ClipNamed(bytes.clip)
         IN IF ~clip.decodable
            THEN [kind |-> "DecodeError", text |-> "librosa.load failed",
                  decoded |-> TRUE]
            ELSE LET samples == (clip.duration_s * sr * bytes.size_mb) \div clip.size_mb
                 IN IF samples = 0
                    THEN [kind |-> "ValueError", text |-> "Loaded empty audio",
                          decoded |-> TRUE]
                    ELSE [kind |-> "ok", y |-> [clip |-> bytes.clip, samples |-> samples],
                          sr |-> sr, decoded |-> TRUE]

\* ---- arrays of the pipeline are kept as views: which signal of which
\* clip, how many frames (axis 0), how many columns (axis 1; 0 for a 1-D
\* array), and the step between the frames kept
View(signal, y, n, cols) ==
    [signal |-> signal, clip |-> y.clip, n |-> n, cols |-> cols, step |-> 1]
NoArray == [signal |-> "None", clip |-> "empty", n |-> 0, cols |-> 0, step |-> 1]

\* a melspectrogram that frames the signal without centring it (no padding)
Bad_melspectrogram_uncentred(y, n_fft, hop_length, n_mels) ==
    [clip |-> y.clip,
     shape |-> <<n_mels, 1 + ((y.samples - n_fft) \div hop_length)>>]

\* librosa.feature.melspectrogram with the default center=True: the signal is
\* padded by n_fft // 2 samples on both sides and cut into frames of n_fft
\* samples, one every hop_length samples; the result has shape
\* (n_mels, n_frames)
melspectrogram(y, n_fft, hop_length, n_mels) ==
    LET padded == y.samples + 2 * (n_fft \div 2)
    IN [clip |-> y.clip,
        shape |-> <<n_mels, 1 + ((padded - n_fft) \div hop_length)>>]

\* an extraction that takes the energy per mel band (axis 1) instead of per
\* frame (axis 0)
Bad_extract_log_mel_frames_energyPerBand(y, sr, cfg) ==
    LET mel == melspectrogram(y, cfg.n_fft, cfg.hop_length, cfg.n_mels)
    IN <<View("log_mel", y, mel.shape[2], mel.shape[1]),
         View("times_s", y, mel.shape[2], 0),
         View("energy", y, mel.shape[1], 0)>>

\* embedding.extract_log_mel_frames: X is the transposed log-mel matrix,
\* times_s has one entry per row of X, energy is the mean over axis 0 of mel
extract_log_mel_frames(y, sr, cfg) ==
    LET mel == melspectrogram(y, cfg.n_fft, cfg.hop_length, cfg.n_mels)
        pX == View("log_mel", y, mel.shape[2], mel.shape[1])
    IN <<pX, View("times_s", y, pX.n, 0), View("energy", y, mel.shape[2], 0)>>

\* a[::step] on a view
StepSliceView(a, step) ==
    [a EXCEPT !.n = SliceLen(a.n, step), !.step = a.step * step]

\* embedding.stride_downsample on views
stride_downsample_views(pX, pT, pE, pStride) ==
    IF pStride <= 1
    THEN <<pX, pT, pE>>
    ELSE <<StepSliceView(pX, pStride), StepSliceView(pT, pStride),
           StepSliceView(pE, pStride)>>

\* ---- figures
\* a resolution whose flatness mode falls back to the time array
Bad_marker_values_fallsBackToTime(color_by, pT, pE, flatness) ==
    IF color_by = "time" THEN <<pT, "time (s)">>
    ELSE IF color_by = "flatness" /\ flatness # NoArray THEN <<flatness, "flatness">>
    ELSE IF color_by = "flatness" THEN <<pT, "time (s)">>
    ELSE <<pE, "energy">>

\* embedding._marker_values (a name cannot start with an underscore here);
\* `flatness is None` is flatness = NoArray
marker_values(color_by, pT, pE, flatness) ==
    IF color_by = "time" THEN <<pT, "time (s)">>
    ELSE IF color_by = "flatness" /\ flatness # NoArray THEN <<flatness, "flatness">>
    ELSE <<pE, "energy">>

\* plotly rejects a colorscale name it does not know with a ValueError
Scatter3dFigure(layout, emb, color_by, pT, pE, colorscale) ==
    IF colorscale \notin SUPPORTED_COLORSCALES
    THEN [kind |-> "ValueError", text |-> "Invalid value for colorscale"]
    ELSE [kind |-> "ok",
          fig |-> [layout |-> layout, points |-> emb.shape[1],
                   color |-> marker_values(color_by, pT, pE, NoArray)[1],
                   colorbar |-> marker_values(color_by, pT, pE, NoArray)[2],
                   colorscale |-> colorscale]]

build_multiview_figure(emb, pT, pE, color_by, colorscale) ==
    Scatter3dFigure("multiview", emb, color_by, pT, pE, colorscale)

build_singleview_figure(emb, pT, pE, color_by, colorscale) ==
    Scatter3dFigure("singleview", emb, color_by, pT, pE, colorscale)

build_waveform_figure(y, sr) ==
    IF y.samples <= 0
    THEN [kind |-> "ValueError", text |-> "Cannot plot empty waveform."]
    ELSE [kind |-> "ok", fig |-> [layout |-> "waveform", y |-> y]]

build_mel_spectrogram_figure(pX, pT) ==
    [kind |-> "ok", fig |-> [layout |-> "heatmap", z |-> pX, x |-> pT]]

build_energy_figure(pT, pE) ==
    [kind |-> "ok", fig |-> [layout |-> "line", x |-> pT, y |-> pE]]

\* a normalisation that lets every submitted mode through
Bad_normalize_color_by_passThrough(value) == value

normalize_color_by(value) == IF value = "energy" THEN "energy" ELSE "time"

\* ---- responses
NoResponse == [status |-> 0]

FetchFailed(e) ==
    [status |-> 400, body |-> "Failed to fetch audio from URL", error |-> e]

NoAudioReceived ==
    [status |-> 400, body |-> "No audio received. Upload a file or provide a URL."]

FailedToVisualize(e) ==
    [status |-> 500, body |-> "Failed to visualize audio", error |-> e]

build_result_page(title, summary, sections) ==
    [status |-> 200, title |-> title, summary |-> summary, sections |-> sections]

\* ------------------------------------------------------------------ idle
\* the value each component's variables hold in a specification that does
\* not exercise the component
IdleReduce ==
    /\ X = <<>> /\ times_s = <<>> /\ energy = <<>>
    /\ stride = 1 /\ reduced = <<>> /\ rpc = "idle"

IdleUmap ==
    /\ umapX = [shape |-> <<>>] /\ umapCfg = DEFAULT_UMAP_CONFIG
    /\ out3d = NoOutcome /\ out2d = NoOutcome

NoRun == [pc |-> "absent"]
IdleCli == cli = NoRun

NoCall == [fn |-> "none"]
NoReturn == [kind |-> "pending"]
IdleLib == call = NoCall /\ ret = NoReturn

\* ======================================================= SpecWeb: machine
\* ---- one request
Requests == {1, 2}

NoException == [kind |-> "none"]
NoWave == [clip |-> "empty", samples |-> 0]

\* the locals of visualize on entry, for a submitted form
NewRequest(form, pc0) ==
    [form |-> form, pc |-> pc0,
     raw |-> EmptyBytes, filename |-> DefaultName,
     stride |-> form.stride, n_neighbors |-> form.n_neighbors,
     min_dist |-> form.min_dist,
     suffix |-> "", f_name |-> NoPath, tmp_path |-> NoPath,
     umap_cfg |-> DEFAULT_UMAP_CONFIG,
     y |-> NoWave, sr |-> 0, arrays |-> <<NoArray, NoArray, NoArray>>,
     emb |-> NoOutcome, sections |-> <<>>,
     exc |-> NoException, response |-> NoResponse,
     stages |-> <<>>,        \* pipeline stages invoked so far, in order
     fetched |-> FALSE,      \* _fetch_audio_from_url has been called
     foreign |-> FALSE]      \* touched a file it had not created

Set(r, rec) == req' = [req EXCEPT ![r] = rec]

\* an exception inside the try block that is logged and then skipped over:
\* control goes on to the response with what has been rendered so far
Bad_Raise_swallowed(rec, e) == [rec EXCEPT !.exc = e, !.pc = "respond"]

\* raise e inside the try block: control goes to `except Exception`
Raise(rec, e) == [rec EXCEPT !.exc = e, !.pc = "except"]

UploadNamed(form) == form.upload.present /\ form.upload.filename # EmptyName

\* `if audio and audio.filename: raw = await audio.read()`
ReadUpload(r) ==
    /\ req[r].pc = "start"
    /\ UploadNamed(req[r].form)
    /\ Set(r, [req[r] EXCEPT !.raw = AllBytes(req[r].form.clip),
                             !.filename = req[r].form.upload.filename,
                             !.pc = "check_raw"])
    /\ UNCHANGED <<tmpdir, varsReduce, varsUmap, varsCli, varsLib>>

\* `elif audio_url.strip():` fetch, and answer 400 when the fetch raises
FetchUrl(r) ==
    /\ req[r].pc = "start"
    /\ ~UploadNamed(req[r].form)
    /\ ~req[r].form.audio_url.blank
    /\ LET got == fetch_audio_from_url(req[r].form.audio_url, req[r].form.clip)
       IN IF got.kind = "ok"
          THEN Set(r, [req[r] EXCEPT !.raw = got.data, !.filename = got.filename,
                                     !.fetched = TRUE, !.pc = "check_raw"])
          ELSE Set(r, [req[r] EXCEPT !.response = FetchFailed(got),
                                     !.fetched = TRUE, !.pc = "done"])
    /\ UNCHANGED <<tmpdir, varsReduce, varsUmap, varsCli, varsLib>>

\* neither branch taken: raw stays b""
NoSource(r) ==
    /\ req[r].pc = "start"
    /\ ~UploadNamed(req[r].form)
    /\ req[r].form.audio_url.blank
    /\ Set(r, [req[r] EXCEPT !.pc = "check_raw"])
    /\ UNCHANGED <<tmpdir, varsReduce, varsUmap, varsCli, varsLib>>

\* a handler without the `if not raw` check: it clamps the parameters and
\* goes on to the temporary file whatever it has read
Bad_CheckRaw_noEmptyCheck(r) ==
    /\ req[r].pc = "check_raw"
    /\ Set(r, [req[r] EXCEPT
             !.stride = Max(1, Min(@, 50)),
             !.n_neighbors = Max(2, Min(@, 200)),
             !.min_dist = Max(0, Min(@, 10)),
             !.suffix = IF req[r].filename.suffix = "" THEN ".wav"
                        ELSE req[r].filename.suffix,
             !.pc = "mktemp"])
    /\ UNCHANGED <<tmpdir, varsReduce, varsUmap, varsCli, varsLib>>

\* a handler that hands the submitted parameters on as they came
Bad_CheckRaw_unclamped(r) ==
    /\ req[r].pc = "check_raw"
    /\ IF req[r].raw.size_mb = 0
       THEN Set(r, [req[r] EXCEPT !.response = NoAudioReceived, !.pc = "done"])
       ELSE Set(r, [req[r] EXCEPT
                !.suffix = IF req[r].filename.suffix = "" THEN ".wav"
                           ELSE req[r].filename.suffix,
                !.pc = "mktemp"])
    /\ UNCHANGED <<tmpdir, varsReduce, varsUmap, varsCli, varsLib>>

\* `if not raw: return 400`, then the clamping of the parameters and the
\* choice of the suffix
CheckRaw(r) ==
    /\ req[r].pc = "check_raw"
    /\ IF req[r].raw.size_mb = 0
       THEN Set(r, [req[r] EXCEPT !.response = NoAudioReceived, !.pc = "done"])
       ELSE Set(r, [req[r] EXCEPT
                !.stride = Max(1, Min(@, 50)),
                !.n_neighbors = Max(2, Min(@, 200)),
                !.min_dist = Max(0, Min(@, 10)),
                !.suffix = IF req[r].filename.suffix = "" THEN ".wav"
                           ELSE req[r].filename.suffix,
                !.pc = "mktemp"])
    /\ UNCHANGED <<tmpdir, varsReduce, varsUmap, varsCli, varsLib>>

\* `with tempfile.NamedTemporaryFile(delete=False, suffix=suffix) as f:`
\* creates an empty file under a fresh name, or raises OSError
CreateTemp(r) ==
    /\ req[r].pc = "mktemp"
    /\ \/ /\ Set(r, Raise(req[r], [kind |-> "OSError", text |-> "mkstemp failed"]))
          /\ UNCHANGED tmpdir
       \/ \E name \in FreeNames(tmpdir) :
            /\ tmpdir' = [tmpdir EXCEPT ![name] =
                   [exists |-> TRUE, data |-> EmptyBytes, owner |-> r,
                    suffix |-> req[r].suffix]]
            /\ Set(r, [req[r] EXCEPT !.f_name = name, !.pc = "write"])
    /\ UNCHANGED <<varsReduce, varsUmap, varsCli, varsLib>>

\* `f.write(raw); tmp_path = Path(f.name)` and the two configs; a write
\* that raises OSError leaves the with block before tmp_path is assigned
WriteTemp(r) ==
    /\ req[r].pc = "write"
    /\ LET name == req[r].f_name
           mine == tmpdir[name].exists /\ tmpdir[name].owner = r
       IN \/ /\ Set(r, Raise([req[r] EXCEPT !.foreign = @ \/ ~mine],
                             [kind |-> "OSError", text |-> "write failed"]))
             /\ UNCHANGED tmpdir
          \/ /\ tmpdir' = [tmpdir EXCEPT ![name].data = req[r].raw]
             /\ Set(r, [req[r] EXCEPT
                    !.tmp_path = name,
                    !.umap_cfg = [DEFAULT_UMAP_CONFIG EXCEPT
                                     !.n_neighbors = req[r].n_neighbors,
                                     !.min_dist = req[r].min_dist],
                    !.foreign = @ \/ ~mine,
                    !.pc = "load"])
    /\ UNCHANGED <<varsReduce, varsUmap, varsCli, varsLib>>

\* `y, sr = load_audio_mono_from_path(tmp_path, sr=audio_cfg.sr)`
Load(r) ==
    /\ req[r].pc = "load"
    /\ LET path == req[r].tmp_path
           mine == tmpdir[path].exists /\ tmpdir[path].owner = r
           got == load_audio_mono_from_path(tmpdir, path, DEFAULT_AUDIO_FEATURE_CONFIG.sr)
           rec == [req[r] EXCEPT !.stages = Append(@, "load"),
                                 !.foreign = @ \/ ~mine]
       IN IF got.kind = "ok"
          THEN Set(r, [rec EXCEPT !.y = got.y, !.sr = got.sr, !.pc = "extract"])
          ELSE Set(r, Raise(rec, got))
    /\ UNCHANGED <<tmpdir, varsReduce, varsUmap, varsCli, varsLib>>

\* `X, times_s, energy = extract_log_mel_frames(y, sr, audio_cfg)`
Extract(r) ==
    /\ req[r].pc = "extract"
    /\ Set(r, [req[r] EXCEPT
           !.arrays = extract_log_mel_frames(req[r].y, req[r].sr,
                                             DEFAULT_AUDIO_FEATURE_CONFIG),
           !.stages = Append(@, "extract"),
           !.pc = "stride"])
    /\ UNCHANGED <<tmpdir, varsReduce, varsUmap, varsCli, varsLib>>

\* `X, times_s, energy = stride_downsample(X, times_s, energy, stride=stride)`
Stride(r) ==
    /\ req[r].pc = "stride"
    /\ Set(r, [req[r] EXCEPT
           !.arrays = stride_downsample_views(@[1], @[2], @[3], req[r].stride),
           !.stages = Append(@, "stride"),
           !.pc = "umap"])
    /\ UNCHANGED <<tmpdir, varsReduce, varsUmap, varsCli, varsLib>>

\* `emb = compute_umap_3d(X, umap_cfg)`
Umap(r) ==
    /\ req[r].pc = "umap"
    /\ LET pX == req[r].arrays[1]
           got == compute_umap_3d(
                      [shape |-> <<pX.n, pX.cols>>],
                      req[r].umap_cfg)
           rec == [req[r] EXCEPT !.stages = Append(@, "umap")]
       IN IF got.kind = "embedding"
          THEN Set(r, [rec EXCEPT !.emb = got, !.pc = "render_embedding"])
          ELSE Set(r, Raise(rec, got))
    /\ UNCHANGED <<tmpdir, varsReduce, varsUmap, varsCli, varsLib>>

\* the embedding figure (multi-view or single-view) and its to_html
RenderEmbedding(r) ==
    /\ req[r].pc = "render_embedding"
    /\ LET chosen == normalize_color_by(req[r].form.color_by)
           pT == req[r].arrays[2]
           pE == req[r].arrays[3]
           got == IF req[r].form.multi_view
                  THEN build_multiview_figure(req[r].emb, pT, pE, chosen,
                                              req[r].form.colorscale)
                  ELSE build_singleview_figure(req[r].emb, pT, pE, chosen,
                                               req[r].form.colorscale)
       IN IF got.kind = "ok"
          THEN Set(r, [req[r] EXCEPT
                   !.sections = Append(@, [title |-> "3D embedding (UMAP)",
                                           html |-> got.fig]),
                   !.pc = "render_waveform"])
          ELSE Set(r, Raise(req[r], got))
    /\ UNCHANGED <<tmpdir, varsReduce, varsUmap, varsCli, varsLib>>

RenderWaveform(r) ==
    /\ req[r].pc = "render_waveform"
    /\ LET got == build_waveform_figure(req[r].y, req[r].sr)
       IN IF got.kind = "ok"
          THEN Set(r, [req[r] EXCEPT
                   !.sections = Append(@, [title |-> "Waveform", html |-> got.fig]),
                   !.pc = "render_mel"])
          ELSE Set(r, Raise(req[r], got))
    /\ UNCHANGED <<tmpdir, varsReduce, varsUmap, varsCli, varsLib>>

RenderMel(r) ==
    /\ req[r].pc = "render_mel"
    /\ LET got == build_mel_spectrogram_figure(req[r].arrays[1], req[r].arrays[2])
       IN Set(r, [req[r] EXCEPT
              !.sections = Append(@, [title |-> "Log-mel spectrogram",
                                      html |-> got.fig]),
              !.pc = "render_energy"])
    /\ UNCHANGED <<tmpdir, varsReduce, varsUmap, varsCli, varsLib>>

RenderEnergy(r) ==
    /\ req[r].pc = "render_energy"
    /\ LET got == build_energy_figure(req[r].arrays[2], req[r].arrays[3])
       IN Set(r, [req[r] EXCEPT
              !.sections = Append(@, [title |-> "Energy", html |-> got.fig]),
              !.pc = "respond"])
    /\ UNCHANGED <<tmpdir, varsReduce, varsUmap, varsCli, varsLib>>

\* title, summary and the page
Summary(rec) ==
    [duration_samples |-> rec.y.samples, sr |-> rec.sr,
     frames |-> rec.arrays[1].n, stride |-> rec.stride,
     color_by |-> normalize_color_by(rec.form.color_by),
     multi_view |-> rec.form.multi_view]

\* `return HTMLResponse(build_result_page(...))`
Respond(r) ==
    /\ req[r].pc = "respond"
    /\ Set(r, [req[r] EXCEPT
           !.response = build_result_page(req[r].filename, Summary(req[r]),
                                          req[r].sections),
           !.pc = "finally"])
    /\ UNCHANGED <<tmpdir, varsReduce, varsUmap, varsCli, varsLib>>

\* `except Exception as e: return HTMLResponse(..., status_code=500)`
Except(r) ==
    /\ req[r].pc = "except"
    /\ Set(r, [req[r] EXCEPT !.response = FailedToVisualize(req[r].exc),
                             !.pc = "finally"])
    /\ UNCHANGED <<tmpdir, varsReduce, varsUmap, varsCli, varsLib>>

\* `finally: if tmp_path is not None: tmp_path.unlink(missing_ok=True)`
Finally(r) ==
    /\ req[r].pc = "finally"
    /\ LET path == req[r].tmp_path
       IN IF path = NoPath
          THEN /\ Set(r, [req[r] EXCEPT !.pc = "done"])
               /\ UNCHANGED tmpdir
          ELSE /\ tmpdir' = [tmpdir EXCEPT ![path] = NoFile]
               /\ Set(r, [req[r] EXCEPT
                      !.foreign = @ \/ (tmpdir[path].exists /\ tmpdir[path].owner # r),
                      !.pc = "done"])
    /\ UNCHANGED <<varsReduce, varsUmap, varsCli, varsLib>>

Visualize(r) ==
    \/ ReadUpload(r) \/ FetchUrl(r) \/ NoSource(r) \/ CheckRaw(r)
    \/ CreateTemp(r) \/ WriteTemp(r)
    \/ Load(r) \/ Extract(r) \/ Stride(r) \/ Umap(r)
    \/ RenderEmbedding(r) \/ RenderWaveform(r) \/ RenderMel(r) \/ RenderEnergy(r)
    \/ Respond(r) \/ Except(r) \/ Finally(r)

NextWeb == \E r \in Requests : Visualize(r)

IdleForm == CHOOSE f \in Forms : f.upload = NoUpload /\ f.audio_url = BlankUrl

IdleWeb ==
    /\ req = [r \in Requests |-> NewRequest(IdleForm, "absent")]
    /\ tmpdir = [n \in TmpNames |-> NoFile]

\* SpecWeb: one request, any form
InitWeb ==
    /\ \E f \in Forms :
         req = [r \in Requests |-> IF r = 1 THEN NewRequest(f, "start")
                                   ELSE NewRequest(IdleForm, "absent")]
    /\ tmpdir = [n \in TmpNames |-> NoFile]
    /\ IdleReduce
    /\ IdleUmap
    /\ IdleCli
    /\ IdleLib

SpecWeb == InitWeb /\ [][NextWeb]_vars

\* SpecWeb2: two requests in flight together, every interleaving of their steps
InitWeb2 ==
    /\ req \in [Requests -> {NewRequest(f, "start") : f \in ConcurrentForms}]
    /\ tmpdir = [n \in TmpNames |-> NoFile]
    /\ IdleReduce
    /\ IdleUmap
    /\ IdleCli
    /\ IdleLib

SpecWeb2 == InitWeb2 /\ [][NextWeb]_vars

\* ===================================================== SpecReduce: machine
\* the three arrays as extract_log_mel_frames hands them over, one entry per
\* frame each, for every frame count up to MaxFrames and every content, and
\* every stride from -1 to MaxStride
FrameValues == {0, 1}

InitReduce ==
    /\ \E n \in 0..MaxFrames :
         /\ X \in [1..n -> FrameValues]
         /\ times_s \in [1..n -> FrameValues]
         /\ energy \in [1..n -> FrameValues]
    /\ stride \in (-1)..MaxStride
    /\ reduced = <<>>
    /\ rpc = "call"
    /\ IdleUmap
    /\ IdleWeb
    /\ IdleCli
    /\ IdleLib

StrideDownsample ==
    /\ rpc = "call"
    /\ reduced' = stride_downsample(X, times_s, energy, stride)
    /\ rpc' = "returned"
    /\ UNCHANGED <<X, times_s, energy, stride, varsUmap, varsWeb, varsCli, varsLib>>

NextReduce == StrideDownsample

SpecReduce == InitReduce /\ [][NextReduce]_vars

\* ======================================================= SpecUmap: machine
\* every array of 0 to 3 axes with extents up to MaxDim, and every neighbor
\* count UMAP accepts (n_neighbors > 1) up to MaxNeighbors
Shapes == SeqsUpTo(0..MaxDim, 3)

InitUmap ==
    /\ umapX \in {[shape |-> s] : s \in Shapes}
    /\ umapCfg \in {UmapConfig(n) : n \in 2..MaxNeighbors}
    /\ out3d = NoOutcome
    /\ out2d = NoOutcome
    /\ IdleReduce
    /\ IdleWeb
    /\ IdleCli
    /\ IdleLib

ComputeUmap3d ==
    /\ out3d = NoOutcome
    /\ out3d' = compute_umap_3d(umapX, umapCfg)
    /\ UNCHANGED <<umapX, umapCfg, out2d, varsReduce, varsWeb, varsCli, varsLib>>

ComputeUmap2d ==
    /\ out2d = NoOutcome
    /\ out2d' = compute_umap_2d(umapX, umapCfg)
    /\ UNCHANGED <<umapX, umapCfg, out3d, varsReduce, varsWeb, varsCli, varsLib>>

NextUmap == ComputeUmap3d \/ ComputeUmap2d

SpecUmap == InitUmap /\ [][NextUmap]_vars

\* ======================================================== SpecCli: machine
\* one run of scripts/bird_sound_3d.py: main() calls the four stages of the
\* core pipeline in a row with no try/except around them, so an exception
\* raised by a stage leaves main() and ends the run with a traceback

\* ---- the files --input can name
CliPaths == {"missing.wav", "corrupt.wav", "nosamples.wav", "sine.wav", "long.wav"}

CliFile(clip_name) ==
    [exists |-> TRUE, data |-> AllBytes(ClipNamed(clip_name)), owner |-> 0,
     suffix |-> ".wav"]

CliFiles ==
    [p \in CliPaths |->
        CASE p = "missing.wav" -> NoFile
          [] p = "corrupt.wav" -> CliFile("corrupt")
          [] p = "nosamples.wav" -> CliFile("no_samples")
          [] p = "sine.wav" -> CliFile("short")
          [] p = "long.wav" -> CliFile("long")]

\* ---- parse_args: the options that reach the pipeline, the others at their
\* defaults
CliArgs ==
    [input : CliPaths, multi_view : BOOLEAN, color_by : {"time", "energy"},
     stride : {0, 1, 2, 50}, hop_length : {256, 512}, n_mels : {64, 128},
     n_neighbors : {2, 15, 23, 200}]

\* the locals of main on entry
NewRun(args) ==
    [args |-> args, pc |-> "configs",
     audio_cfg |-> DEFAULT_AUDIO_FEATURE_CONFIG, umap_cfg |-> DEFAULT_UMAP_CONFIG,
     y |-> NoWave, sr |-> 0, arrays |-> <<NoArray, NoArray, NoArray>>,
     emb |-> NoOutcome, fig |-> [layout |-> "none"],
     exc |-> NoException,
     output |-> "absent",    \* the file at args.output
     stages |-> <<>>,        \* pipeline stages invoked so far, in order
     raised_at |-> 0]        \* how many stages had been invoked when main raised

SetCli(rec) == cli' = rec

\* a main() that catches the exception of a stage, logs it and carries on
\* with the next statement
Bad_Propagate_swallowed(rec, e, next_pc) == [rec EXCEPT !.exc = e, !.pc = next_pc]

\* an exception raised by a call in main(): nothing catches it, main() is
\* left at once and the statement at next_pc is never reached
Propagate(rec, e, next_pc) ==
    [rec EXCEPT !.exc = e, !.pc = "raised", !.raised_at = Len(rec.stages)]

\* `audio_cfg = AudioFeatureConfig(...)`, `umap_cfg = UmapConfig(...)`
MainConfigs ==
    /\ cli # NoRun /\ cli.pc = "configs"
    /\ SetCli([cli EXCEPT
           !.audio_cfg = [DEFAULT_AUDIO_FEATURE_CONFIG EXCEPT
                             !.hop_length = cli.args.hop_length,
                             !.n_mels = cli.args.n_mels],
           !.umap_cfg = [DEFAULT_UMAP_CONFIG EXCEPT
                            !.n_neighbors = cli.args.n_neighbors],
           !.pc = "load"])
    /\ UNCHANGED <<varsReduce, varsUmap, varsWeb, varsLib>>

\* `y, sr = load_audio_mono_from_path(args.input, sr=audio_cfg.sr)`
MainLoad ==
    /\ cli # NoRun /\ cli.pc = "load"
    /\ LET got == load_audio_mono_from_path(CliFiles, cli.args.input, cli.audio_cfg.sr)
           rec == [cli EXCEPT !.stages = Append(@, "load")]
       IN IF got.kind = "ok"
          THEN SetCli([rec EXCEPT !.y = got.y, !.sr = got.sr, !.pc = "extract"])
          ELSE SetCli(Propagate(rec, got, "extract"))
    /\ UNCHANGED <<varsReduce, varsUmap, varsWeb, varsLib>>

\* `X, times_s, energy = extract_log_mel_frames(y, sr, audio_cfg)`
MainExtract ==
    /\ cli # NoRun /\ cli.pc = "extract"
    /\ SetCli([cli EXCEPT
           !.arrays = extract_log_mel_frames(cli.y, cli.sr, cli.audio_cfg),
           !.stages = Append(@, "extract"),
           !.pc = "stride"])
    /\ UNCHANGED <<varsReduce, varsUmap, varsWeb, varsLib>>

\* `X, times_s, energy = stride_downsample(X, times_s, energy, stride=args.stride)`
MainStride ==
    /\ cli # NoRun /\ cli.pc = "stride"
    /\ SetCli([cli EXCEPT
           !.arrays = stride_downsample_views(@[1], @[2], @[3], cli.args.stride),
           !.stages = Append(@, "stride"),
           !.pc = "umap"])
    /\ UNCHANGED <<varsReduce, varsUmap, varsWeb, varsLib>>

\* `emb = compute_umap_3d(X, umap_cfg)`
MainUmap ==
    /\ cli # NoRun /\ cli.pc = "umap"
    /\ LET pX == cli.arrays[1]
           got == compute_umap_3d([shape |-> <<pX.n, pX.cols>>], cli.umap_cfg)
           rec == [cli EXCEPT !.stages = Append(@, "umap")]
       IN IF got.kind = "embedding"
          THEN SetCli([rec EXCEPT !.emb = got, !.pc = "figure"])
          ELSE SetCli(Propagate(rec, got, "figure"))
    /\ UNCHANGED <<varsReduce, varsUmap, varsWeb, varsLib>>

\* the figure, multi-view or single-view, with the default colorscale
MainFigure ==
    /\ cli # NoRun /\ cli.pc = "figure"
    /\ LET pT == cli.arrays[2]
           pE == cli.arrays[3]
           got == IF cli.args.multi_view
                  THEN build_multiview_figure(cli.emb, pT, pE, cli.args.color_by,
                                              "Turbo")
                  ELSE build_singleview_figure(cli.emb, pT, pE, cli.args.color_by,
                                               "Turbo")
       IN IF got.kind = "ok"
          THEN SetCli([cli EXCEPT !.fig = got.fig, !.pc = "write"])
          ELSE SetCli(Propagate(cli, got, "write"))
    /\ UNCHANGED <<varsReduce, varsUmap, varsWeb, varsLib>>

\* `args.output.parent.mkdir(...)`, `fig.write_html(...)`, `print(...)`:
\* the file is written, or the file system refuses with an OSError
MainWrite ==
    /\ cli # NoRun /\ cli.pc = "write"
    /\ \/ SetCli([cli EXCEPT !.output = "written", !.pc = "exit"])
       \/ SetCli(Propagate(cli, [kind |-> "OSError", text |-> "write_html failed"],
                           "exit"))
    /\ UNCHANGED <<varsReduce, varsUmap, varsWeb, varsLib>>

NextCli ==
    \/ MainConfigs \/ MainLoad \/ MainExtract \/ MainStride \/ MainUmap
    \/ MainFigure \/ MainWrite

InitCli ==
    /\ cli \in {NewRun(args) : args \in CliArgs}
    /\ IdleReduce
    /\ IdleUmap
    /\ IdleWeb
    /\ IdleLib

SpecCli == InitCli /\ [][NextCli]_vars

\* ================================================= library calls: machines
\* each of these specifications makes one call of one function, on every
\* input of a bounded set, and keeps what the call returned in `ret`
Returned(value) == [kind |-> "returned", value |-> value]

\* ---- SpecMarker: embedding._marker_values
\* the arrays a figure builder passes on: the time and the energy array of
\* one clip, aligned, and the flatness array or None
MarkerCalls ==
    { [fn |-> "_marker_values", color_by |-> c,
       times_s |-> [View("times_s", y, n, 0) EXCEPT !.step = s],
       energy |-> [View("energy", y, n, 0) EXCEPT !.step = s],
       flatness |-> IF supplied
                    THEN [View("flatness", y, n, 0) EXCEPT !.step = s]
                    ELSE NoArray] :
        c \in {"time", "energy", "flatness"},
        y \in {[clip |-> "short", samples |-> 22050],
               [clip |-> "long", samples |-> 13252050]},
        n \in 1..MaxFrames, s \in {1, 2}, supplied \in BOOLEAN }

MarkerValues ==
    /\ call.fn = "_marker_values" /\ ret = NoReturn
    /\ ret' = Returned(marker_values(call.color_by, call.times_s, call.energy,
                                     call.flatness))
    /\ UNCHANGED <<call, varsReduce, varsUmap, varsWeb, varsCli>>

InitMarker ==
    /\ call \in MarkerCalls
    /\ ret = NoReturn
    /\ IdleReduce
    /\ IdleUmap
    /\ IdleWeb
    /\ IdleCli

NextMarker == MarkerValues

SpecMarker == InitMarker /\ [][NextMarker]_vars

\* ---- SpecSummarize: analysis.summarize
\* a waveform is given by what librosa measures on it: the tempo in tenths
\* of a beat per minute, the mean zero-crossing rate in thousandths and the
\* mean spectral centroid in Hz, each on both sides of its threshold
Measurements ==
    [tempo_bpm_x10 : {0, 799, 800, 801, 1000, 1199, 1200, 1201, 2400},
     zcr_mean_x1000 : {0, 99, 100, 101, 500},
     centroid_mean : {0, 2999, 3000, 3001, 8000}]

\* a summarize whose fast-tempo rule includes the threshold (>= 120)
Bad_summarize_fastAtThreshold(y, sr) ==
    [sample_rate |-> sr,
     tempo_bpm_x10 |-> y.tempo_bpm_x10,
     zero_crossing_rate_mean_x1000 |-> y.zcr_mean_x1000,
     spectral_centroid_mean |-> y.centroid_mean,
     tags |-> (IF y.tempo_bpm_x10 >= 1200 THEN <<"fast-tempo">>
               ELSE IF y.tempo_bpm_x10 < 800 THEN <<"slow-tempo">>
               ELSE <<>>)
              \o (IF y.zcr_mean_x1000 > 100 THEN <<"noisy">> ELSE <<>>)
              \o (IF y.centroid_mean > 3000 THEN <<"bright">> ELSE <<>>)]

\* analysis.summarize: the tags are appended in this order by
\* `if tempo > 120 ... elif tempo < 80 ...`, `if mean(zcr) > 0.1 ...`,
\* `if mean(centroid) > 3000 ...`
summarize(y, sr) ==
    [sample_rate |-> sr,
     tempo_bpm_x10 |-> y.tempo_bpm_x10,
     zero_crossing_rate_mean_x1000 |-> y.zcr_mean_x1000,
     spectral_centroid_mean |-> y.centroid_mean,
     tags |-> (IF y.tempo_bpm_x10 > 1200 THEN <<"fast-tempo">>
               ELSE IF y.tempo_bpm_x10 < 800 THEN <<"slow-tempo">>
               ELSE <<>>)
              \o (IF y.zcr_mean_x1000 > 100 THEN <<"noisy">> ELSE <<>>)
              \o (IF y.centroid_mean > 3000 THEN <<"bright">> ELSE <<>>)]

Summarize ==
    /\ call.fn = "summarize" /\ ret = NoReturn
    /\ ret' = Returned(summarize(call.y, call.sr))
    /\ UNCHANGED <<call, varsReduce, varsUmap, varsWeb, varsCli>>

InitSummarize ==
    /\ call \in {[fn |-> "summarize", y |-> y, sr |-> 22050] : y \in Measurements}
    /\ ret = NoReturn
    /\ IdleReduce
    /\ IdleUmap
    /\ IdleWeb
    /\ IdleCli

NextSummarize == Summarize

SpecSummarize == InitSummarize /\ [][NextSummarize]_vars

\* ---- SpecExtract: embedding.extract_log_mel_frames
\* waveforms of 1 to MaxSamples samples and of one second, under configs
\* with even and odd n_fft, several hops and several numbers of mel bands
ExtractCalls ==
    { [fn |-> "extract_log_mel_frames",
       y |-> [clip |-> "short", samples |-> len], sr |-> 22050,
       cfg |-> [DEFAULT_AUDIO_FEATURE_CONFIG EXCEPT
                   !.n_fft = n_fft, !.hop_length = hop_length, !.n_mels = n_mels]] :
        len \in (1..MaxSamples) \cup {22050},
        n_fft \in {2, 3, 2048}, hop_length \in {1, 2, 512}, n_mels \in {1, 3, 128} }

ExtractLogMelFrames ==
    /\ call.fn = "extract_log_mel_frames" /\ ret = NoReturn
    /\ ret' = Returned(extract_log_mel_frames(call.y, call.sr, call.cfg))
    /\ UNCHANGED <<call, varsReduce, varsUmap, varsWeb, varsCli>>

InitExtract ==
    /\ call \in ExtractCalls
    /\ ret = NoReturn
    /\ IdleReduce
    /\ IdleUmap
    /\ IdleWeb
    /\ IdleCli

NextExtract == ExtractLogMelFrames

SpecExtract == InitExtract /\ [][NextExtract]_vars

\* ---- SpecCsv: exporters.features_to_csv
\* text is a sequence of characters; a number is an integer count of 1e-7

\* ---- f"{x:.4f}" and f"{x:.6f}": fixed-point formatting, rounded half to
\* even, with the sign of x kept even when the digits round to zero
Digit(d) == <<"0", "1", "2", "3", "4", "5", "6", "7", "8", "9">>[d + 1]

RECURSIVE Digits(_)
Digits(n) == IF n < 10 THEN <<Digit(n)>> ELSE Digits(n \div 10) \o <<Digit(n % 10)>>

FracDigits(n, width) == [i \in 1..width |-> Digit((n \div (10 ^ (width - i))) % 10)]

format_f(x, places) ==
    LET scale == 10 ^ (7 - places)
        a == IF x < 0 THEN -x ELSE x
        down == a \div scale
        rest == a % scale
        q == IF 2 * rest > scale \/ (2 * rest = scale /\ down % 2 = 1)
             THEN down + 1 ELSE down
    IN (IF x < 0 THEN <<"-">> ELSE <<>>)
       \o Digits(q \div (10 ^ places)) \o <<".">> \o FracDigits(q % (10 ^ places), places)

\* ---- csv.writer(buf) with the default dialect: delimiter ",", quotechar
\* '"' doubled inside a quoted field, QUOTE_MINIMAL, lineterminator "\r\n"
NeedsQuote(field) == \E i \in 1..Len(field) : field[i] \in {",", "\"", "\r", "\n"}

RECURSIVE DoubleQuotes(_)
DoubleQuotes(field) ==
    IF field = <<>> THEN <<>>
    ELSE (IF Head(field) = "\"" THEN <<"\"", "\"">> ELSE <<Head(field)>>)
         \o DoubleQuotes(Tail(field))

WriteField(field) ==
    IF NeedsQuote(field) THEN <<"\"">> \o DoubleQuotes(field) \o <<"\"">> ELSE field

RECURSIVE JoinFields(_)
JoinFields(row) ==
    IF Len(row) = 1 THEN WriteField(row[1])
    ELSE WriteField(Head(row)) \o <<",">> \o JoinFields(Tail(row))

\* a writer that ends its lines with "\n" and never quotes a field
Bad_writerow_unquoted(row) ==
    LET RECURSIVE Plain(_)
        Plain(r) == IF Len(r) = 1 THEN r[1] ELSE Head(r) \o <<",">> \o Plain(Tail(r))
    IN Plain(row) \o <<"\n">>

\* writer.writerow(row), for a row of at least one field; a row that is one
\* empty field is written as ""
writerow(row) ==
    (IF row = << <<>> >> THEN <<"\"", "\"">> ELSE JoinFields(row)) \o <<"\r", "\n">>

RECURSIVE Concat(_)
Concat(texts) == IF texts = <<>> THEN <<>> ELSE Head(texts) \o Concat(Tail(texts))

\* an export that writes nothing for a frame a column does not reach, so the
\* row comes out shorter than the header
Bad_features_to_csv_ragged(pTimes, columns) ==
    LET header == << <<"t", "i", "m", "e", "_", "s">> >>
                  \o [k \in 1..Len(columns) |-> columns[k].name]
        Row(i) == LET Reaches(c) == i <= Len(c.values)
                      present == SelectSeq(columns, Reaches)
                  IN <<format_f(pTimes[i], 4)>>
                     \o [k \in 1..Len(present) |-> format_f(present[k].values[i], 6)]
    IN writerow(header) \o Concat([i \in 1..Len(pTimes) |-> writerow(Row(i))])

\* exporters.features_to_csv: `columns` is the dict in insertion order, a
\* sequence of [name, values]; Python's arr[i] for i in range(n_frames) is
\* values[i] for i in 1..Len(times_s) here
features_to_csv(pTimes, columns) ==
    LET header == << <<"t", "i", "m", "e", "_", "s">> >>
                  \o [k \in 1..Len(columns) |-> columns[k].name]
        Row(i) == <<format_f(pTimes[i], 4)>>
                  \o [k \in 1..Len(columns) |->
                        IF i <= Len(columns[k].values)
                        THEN format_f(columns[k].values[i], 6) ELSE <<>>]
    IN writerow(header) \o Concat([i \in 1..Len(pTimes) |-> writerow(Row(i))])

\* ---- the inputs: column names without and with the characters the writer
\* quotes, frame times one hop apart, arrays as long as, shorter than and
\* longer than the time array
ColumnNames ==
    { <<"e", "n">>, <<"z">>, <<"a", ",", "b">>, <<"q", "\"">>, <<"l", "\n">> }

TimeArrays == { [i \in 1..n |-> (i - 1) * hop] : n \in 0..MaxRows, hop \in {232200, 5000000} }

ValueArrays ==
    { [i \in 1..n |-> i * first] :
        n \in {0, 1, MaxRows + 1}, first \in {1234567, -2500004} }

ColumnDicts ==
    { cols \in UNION { [1..k -> [name : ColumnNames, values : ValueArrays]] : k \in 0..MaxCols } :
        \A i, j \in 1..Len(cols) : i # j => cols[i].name # cols[j].name }

FeaturesToCsv ==
    /\ call.fn = "features_to_csv" /\ ret = NoReturn
    /\ ret' = Returned(features_to_csv(call.times_s, call.columns))
    /\ UNCHANGED <<call, varsReduce, varsUmap, varsWeb, varsCli>>

InitCsv ==
    /\ call \in {[fn |-> "features_to_csv", times_s |-> t, columns |-> c] :
                    t \in TimeArrays, c \in ColumnDicts}
    /\ ret = NoReturn
    /\ IdleReduce
    /\ IdleUmap
    /\ IdleWeb
    /\ IdleCli

NextCsv == FeaturesToCsv

SpecCsv == InitCsv /\ [][NextCsv]_vars

\* ---- SpecJson: exporters.to_json
\* Python objects carry their type; a float or numpy number is an integer
\* count of hundredths; a dict is the sequence of its items in insertion
\* order.  The JSON text is kept as its document: strings, number literals,
\* true, false, null, arrays and objects.
PyStr(s) == [t |-> "str", v |-> s]
PyInt(i) == [t |-> "int", v |-> i]
PyFloat(x) == [t |-> "float", v |-> x]
PyBool(b) == [t |-> "bool", v |-> b]
PyNone == [t |-> "None"]
PyList(items) == [t |-> "list", v |-> items]
PyDict(items) == [t |-> "dict", v |-> items]
NpArray(dtype, items) == [t |-> "ndarray", dtype |-> dtype, v |-> items]

\* int.__repr__: the digits, no fraction
int_repr(i) == [neg |-> i < 0, int |-> IF i < 0 THEN -i ELSE i, frac |-> <<>>]

\* a float written like an integer when it has no fractional part
Bad_float_repr_integral(x) ==
    LET a == IF x < 0 THEN -x ELSE x
    IN [neg |-> x < 0, int |-> a \div 100,
        frac |-> IF a % 100 = 0 THEN <<>>
                 ELSE IF a % 10 = 0 THEN <<(a % 100) \div 10>>
                 ELSE <<(a % 100) \div 10, a % 10>>]

\* float.__repr__: the shortest digits that read back as the same float,
\* always with a fraction ("1.0", "0.95", "2.5")
float_repr(x) ==
    LET a == IF x < 0 THEN -x ELSE x
    IN [neg |-> x < 0, int |-> a \div 100,
        frac |-> IF a % 10 = 0 THEN <<(a % 100) \div 10>>
                 ELSE <<(a % 100) \div 10, a % 10>>]

\* to_json._default: what json.dumps asks for an object it cannot encode
json_default(obj) ==
    CASE obj.t = "ndarray" ->
            PyList([i \in 1..Len(obj.v) |->
                       IF obj.dtype = "int64" THEN PyInt(obj.v[i]) ELSE PyFloat(obj.v[i])])
      [] obj.t = "np.float32" -> PyFloat(obj.v)
      [] obj.t = "np.int64" -> PyInt(obj.v)
      [] obj.t = "Path" -> PyStr(obj.v)
      [] OTHER -> [t |-> "TypeError"]

\* json.dumps(data, default=_default): the JSON document of an object
RECURSIVE json_dumps(_)
json_dumps(obj) ==
    CASE obj.t = "str" -> [j |-> "string", v |-> obj.v]
      [] obj.t = "bool" -> [j |-> IF obj.v THEN "true" ELSE "false"]
      [] obj.t = "int" -> [j |-> "number", lit |-> int_repr(obj.v)]
      [] obj.t = "float" -> [j |-> "number", lit |-> float_repr(obj.v)]
      [] obj.t = "None" -> [j |-> "null"]
      [] obj.t = "list" ->
            [j |-> "array", items |-> [i \in 1..Len(obj.v) |-> json_dumps(obj.v[i])]]
      [] obj.t = "dict" ->
            [j |-> "object",
             members |-> [i \in 1..Len(obj.v) |->
                            [name |-> obj.v[i].key, value |-> json_dumps(obj.v[i].value)]]]
      [] obj.t = "TypeError" -> [j |-> "TypeError"]
      [] OTHER -> json_dumps(json_default(obj))

\* whether encoding met an object that _default rejects
RECURSIVE Unserializable(_)
Unserializable(doc) ==
    CASE doc.j = "TypeError" -> TRUE
      [] doc.j = "array" -> \E i \in 1..Len(doc.items) : Unserializable(doc.items[i])
      [] doc.j = "object" ->
            \E i \in 1..Len(doc.members) : Unserializable(doc.members[i].value)
      [] OTHER -> FALSE

\* exporters.to_json
to_json(data, indent) ==
    LET doc == json_dumps(data)
    IN IF Unserializable(doc)
       THEN [kind |-> "TypeError", text |-> "is not JSON serializable"]
       ELSE Returned([indent |-> indent, doc |-> doc])

\* json.loads, as the tests apply it to the text of to_json
RECURSIVE json_loads_doc(_)
json_loads_doc(doc) ==
    CASE doc.j = "string" -> PyStr(doc.v)
      [] doc.j = "true" -> PyBool(TRUE)
      [] doc.j = "false" -> PyBool(FALSE)
      [] doc.j = "null" -> PyNone
      [] doc.j = "number" ->
            LET lit == doc.lit
                sign == IF lit.neg THEN -1 ELSE 1
            IN IF lit.frac = <<>> THEN PyInt(sign * lit.int)
               ELSE PyFloat(sign * (lit.int * 100 + lit.frac[1] * 10
                                    + (IF Len(lit.frac) > 1 THEN lit.frac[2] ELSE 0)))
      [] doc.j = "array" ->
            PyList([i \in 1..Len(doc.items) |-> json_loads_doc(doc.items[i])])
      [] doc.j = "object" ->
            PyDict([i \in 1..Len(doc.members) |->
                      [key |-> doc.members[i].name,
                       value |-> json_loads_doc(doc.members[i].value)]])

json_loads(text) == json_loads_doc(text.doc)

\* ---- the inputs: records of one or two fields whose values are Python
\* scalars, lists of them, numpy arrays and scalars, a Path or a set; the
\* numbers are finite
Scalars ==
    { PyStr("test"), PyInt(0), PyInt(-7), PyFloat(95), PyFloat(100), PyFloat(-250),
      PyBool(TRUE), PyNone }

Lists == { PyList(items) : items \in SeqsUpTo({PyStr("a"), PyInt(1), PyFloat(100)}, MaxLen) }

Arrays ==
    { NpArray("float64", items) : items \in SeqsUpTo({100, 250}, MaxLen) }
    \cup { NpArray("int64", <<3, 1, 2>>) }

Others ==
    { [t |-> "np.float32", v |-> 350], [t |-> "np.int64", v |-> 7],
      [t |-> "Path", v |-> "out/report.json"], [t |-> "set"] }

Records ==
    { PyDict(items) :
        items \in { fields \in SeqsUpTo([key : {"name", "score"},
                                        value : Scalars \cup Lists \cup Arrays \cup Others], 2) :
                      \A i, k \in 1..Len(fields) : i # k => fields[i].key # fields[k].key } }

ToJson ==
    /\ call.fn = "to_json" /\ ret = NoReturn
    /\ ret' = to_json(call.data, call.indent)
    /\ UNCHANGED <<call, varsReduce, varsUmap, varsWeb, varsCli>>

InitJson ==
    /\ call \in {[fn |-> "to_json", data |-> d, indent |-> 2] : d \in Records}
    /\ ret = NoReturn
    /\ IdleReduce
    /\ IdleUmap
    /\ IdleWeb
    /\ IdleCli

NextJson == ToJson

SpecJson == InitJson /\ [][NextJson]_vars

\* ---- SpecConfig: embedding.UmapConfig(**kwargs)
\* the keyword arguments of one construction: any subset of the four fields
Restrict(f, D) == [k \in D |-> f[k]]

UmapConfigKwargs ==
    { Restrict(full, D) :
        full \in [n_neighbors : {2, 5, 15}, min_dist : {0, 1, 5},
                  metric : {"cosine", "euclidean", "manhattan"}, random_state : {0, 42}],
        D \in SUBSET {"n_neighbors", "min_dist", "metric", "random_state"} }

\* the generated __init__ of the dataclass: a field not given takes its
\* default, the defaults being the fields of UmapConfig()
NewUmapConfig(kwargs) ==
    [k \in DOMAIN DEFAULT_UMAP_CONFIG |->
        IF k \in DOMAIN kwargs THEN kwargs[k] ELSE DEFAULT_UMAP_CONFIG[k]]

ConstructUmapConfig ==
    /\ call.fn = "UmapConfig" /\ ret = NoReturn
    /\ ret' = Returned(NewUmapConfig(call.kwargs))
    /\ UNCHANGED <<call, varsReduce, varsUmap, varsWeb, varsCli>>

InitConfig ==
    /\ call \in {[fn |-> "UmapConfig", kwargs |-> kw] : kw \in UmapConfigKwargs}
    /\ ret = NoReturn
    /\ IdleReduce
    /\ IdleUmap
    /\ IdleWeb
    /\ IdleCli

NextConfig == ConstructUmapConfig

SpecConfig == InitConfig /\ [][NextConfig]_vars

\* ---- SpecPreset: presets.get_preset
\* a name is a sequence of characters
LowerCase == <<"a", "b", "c", "d", "e", "f", "g", "h", "i", "j", "k", "l", "m",
               "n", "o", "p", "q", "r", "s", "t", "u", "v", "w", "x", "y", "z">>
UpperCase == <<"A", "B", "C", "D", "E", "F", "G", "H", "I", "J", "K", "L", "M",
               "N", "O", "P", "Q", "R", "S", "T", "U", "V", "W", "X", "Y", "Z">>

\* str.lower() and str.upper() on these characters
lower(s) ==
    [i \in 1..Len(s) |->
        IF \E k \in 1..26 : UpperCase[k] = s[i]
        THEN LowerCase[CHOOSE k \in 1..26 : UpperCase[k] = s[i]] ELSE s[i]]

upper(s) ==
    [i \in 1..Len(s) |->
        IF \E k \in 1..26 : LowerCase[k] = s[i]
        THEN UpperCase[CHOOSE k \in 1..26 : LowerCase[k] = s[i]] ELSE s[i]]

PRESET_MUSIC ==
    [name |-> "Music",
     audio_config |-> [DEFAULT_AUDIO_FEATURE_CONFIG EXCEPT
                          !.n_mels = 128, !.hop_length = 512, !.fmin = 20],
     umap_config |-> [n_neighbors |-> 30, min_dist_x100 |-> 5,
                      metric |-> DEFAULT_UMAP_CONFIG.metric,
                      random_state |-> DEFAULT_UMAP_CONFIG.random_state],
     colorscale |-> "Turbo", color_by |-> "time", stride |-> 2]

PRESET_SPEECH ==
    [name |-> "Speech",
     audio_config |-> [DEFAULT_AUDIO_FEATURE_CONFIG EXCEPT
                          !.n_mels = 64, !.hop_length = 256, !.fmin = 80],
     umap_config |-> [n_neighbors |-> 20, min_dist_x100 |-> 10,
                      metric |-> DEFAULT_UMAP_CONFIG.metric,
                      random_state |-> DEFAULT_UMAP_CONFIG.random_state],
     colorscale |-> "Viridis", color_by |-> "energy", stride |-> 3]

PRESET_NATURE ==
    [name |-> "Nature / Field Recording",
     audio_config |-> [DEFAULT_AUDIO_FEATURE_CONFIG EXCEPT
                          !.n_mels = 128, !.hop_length = 1024, !.fmin = 20],
     umap_config |-> [n_neighbors |-> 15, min_dist_x100 |-> 20,
                      metric |-> DEFAULT_UMAP_CONFIG.metric,
                      random_state |-> DEFAULT_UMAP_CONFIG.random_state],
     colorscale |-> "Plasma", color_by |-> "time", stride |-> 1]

PRESET_PERCUSSIVE ==
    [name |-> "Percussive / Drums",
     audio_config |-> [DEFAULT_AUDIO_FEATURE_CONFIG EXCEPT
                          !.n_mels = 64, !.hop_length = 256, !.fmin = 20],
     umap_config |-> [n_neighbors |-> 10, min_dist_x100 |-> 1,
                      metric |-> DEFAULT_UMAP_CONFIG.metric,
                      random_state |-> DEFAULT_UMAP_CONFIG.random_state],
     colorscale |-> "Hot", color_by |-> "energy", stride |-> 2]

\* a registry one of whose presets names a colorscale plotly has but the
\* application does not list, with a stride of 0
Bad_ALL_PRESETS_illFormed ==
    (<<"m", "u", "s", "i", "c">> :> PRESET_MUSIC)
    @@ (<<"s", "p", "e", "e", "c", "h">> :> PRESET_SPEECH)
    @@ (<<"n", "a", "t", "u", "r", "e">> :>
            [PRESET_NATURE EXCEPT !.colorscale = "Jet", !.stride = 0])
    @@ (<<"p", "e", "r", "c", "u", "s", "s", "i", "v", "e">> :> PRESET_PERCUSSIVE)

ALL_PRESETS ==
    (<<"m", "u", "s", "i", "c">> :> PRESET_MUSIC)
    @@ (<<"s", "p", "e", "e", "c", "h">> :> PRESET_SPEECH)
    @@ (<<"n", "a", "t", "u", "r", "e">> :> PRESET_NATURE)
    @@ (<<"p", "e", "r", "c", "u", "s", "s", "i", "v", "e">> :> PRESET_PERCUSSIVE)

\* dict.get(key): the value, or None
DictGet(d, key) == IF key \in DOMAIN d THEN d[key] ELSE PyNone

\* a lookup that compares the name as it was given
Bad_get_preset_caseSensitive(name) == DictGet(ALL_PRESETS, name)

\* presets.get_preset
get_preset(name) == DictGet(ALL_PRESETS, lower(name))

\* ---- the names looked up: every casing of every registered key, and names
\* that are no key in any casing
Casings(key) ==
    { [i \in 1..Len(key) |-> IF i \in up THEN upper(key)[i] ELSE key[i]] :
        up \in SUBSET (1..Len(key)) }

PresetNames ==
    UNION { Casings(key) : key \in DOMAIN ALL_PRESETS }
    \cup { <<>>, <<"m", "u", "s", "i">>, <<"M", "u", "s", "i", "c", " ">>,
           <<" ", "m", "u", "s", "i", "c">>, <<"m", "u", "s", "i", "c", "s">>,
           <<"n", "o", "n", "e", "x", "i", "s", "t", "e", "n", "t">>,
           <<"N", "A", "T", "U", "R", "3">> }

GetPreset ==
    /\ call.fn = "get_preset" /\ ret = NoReturn
    /\ ret' = Returned(get_preset(call.name))
    /\ UNCHANGED <<call, varsReduce, varsUmap, varsWeb, varsCli>>

InitPreset ==
    /\ call \in {[fn |-> "get_preset", name |-> n] : n \in PresetNames}
    /\ ret = NoReturn
    /\ IdleReduce
    /\ IdleUmap
    /\ IdleWeb
    /\ IdleCli

NextPreset == GetPreset

SpecPreset == InitPreset /\ [][NextPreset]_vars

\* ---- SpecClamp: validators.clamp and validators.clamp_int
\* the bounds are swapped between min and max
Bad_clamp_swapped(value, low, high) == Min(low, Max(high, value))

\* validators.clamp (floats, in a fixed unit)
clamp(value, low, high) == Max(low, Min(high, value))

\* validators.clamp_int
clamp_int(value, low, high) == Max(low, Min(high, value))

ClampCalls ==
    {[fn |-> f, value |-> v, low |-> lo, high |-> hi, pass |-> 1, given |-> v] :
        f \in {"clamp", "clamp_int"},
        v \in (0 - MaxBound - 2)..(MaxBound + 2),
        lo \in (0 - MaxBound)..MaxBound,
        hi \in (0 - MaxBound)..MaxBound}

Clamp ==
    /\ call.fn = "clamp" /\ ret = NoReturn
    /\ ret' = Returned(clamp(call.value, call.low, call.high))
    /\ UNCHANGED <<call, varsReduce, varsUmap, varsWeb, varsCli>>

ClampInt ==
    /\ call.fn = "clamp_int" /\ ret = NoReturn
    /\ ret' = Returned(clamp_int(call.value, call.low, call.high))
    /\ UNCHANGED <<call, varsReduce, varsUmap, varsWeb, varsCli>>

\* the caller passes the result back in with the same bounds
ClampAgain ==
    /\ call.fn \in {"clamp", "clamp_int"} /\ ret # NoReturn /\ call.pass = 1
    /\ call' = [call EXCEPT !.value = ret.value, !.pass = 2]
    /\ ret' = NoReturn
    /\ UNCHANGED <<varsReduce, varsUmap, varsWeb, varsCli>>

InitClamp ==
    /\ call \in ClampCalls
    /\ ret = NoReturn
    /\ IdleReduce
    /\ IdleUmap
    /\ IdleWeb
    /\ IdleCli

NextClamp == Clamp \/ ClampInt \/ ClampAgain

SpecClamp == InitClamp /\ [][NextClamp]_vars

\* ---- SpecUrl: validators.sanitize_url
\* the characters str.strip() removes, of those the inputs draw on
Whitespace == {" ", "\t", "\n", "\r"}

\* str.strip()
strip(s) ==
    LET kept == {i \in 1..Len(s) : s[i] \notin Whitespace}
    IN  IF kept = {} THEN <<>>
        ELSE SubSeq(s, CHOOSE i \in kept : \A k \in kept : i <= k,
                       CHOOSE j \in kept : \A k \in kept : k <= j)

\* str.startswith(prefix)
startswith(s, prefix) ==
    /\ Len(s) >= Len(prefix)
    /\ SubSeq(s, 1, Len(prefix)) = prefix

HttpPrefix == <<"h", "t", "t", "p", ":", "/", "/">>
HttpsPrefix == <<"h", "t", "t", "p", "s", ":", "/", "/">>

\* the scheme is checked on the stripped text but the text is returned as given
Bad_sanitize_url_returnsUnstripped(url) ==
    IF strip(url) = <<>> THEN PyNone
    ELSE IF ~(startswith(strip(url), HttpPrefix) \/ startswith(strip(url), HttpsPrefix))
         THEN PyNone
         ELSE PyStr(url)

\* validators.sanitize_url
sanitize_url(url) ==
    LET stripped == strip(url)
    IN  IF stripped = <<>> THEN PyNone
        ELSE IF ~(startswith(stripped, HttpPrefix) \/ startswith(stripped, HttpsPrefix))
             THEN PyNone
             ELSE PyStr(stripped)

UrlBodies ==
    { <<>>,
      HttpPrefix, HttpsPrefix,
      HttpPrefix \o <<"x">>, HttpsPrefix \o <<"x">>,
      HttpPrefix \o <<"a", " ", "b">>,
      <<"f", "t", "p", ":", "/", "/", "x">>,
      <<"h", "t", "t", "p", ":", "/", "x">>,
      <<"h", "t", "t", "p", "s", ":", "/", "x">>,
      <<"H", "T", "T", "P", ":", "/", "/", "x">>,
      <<"x">> \o HttpPrefix \o <<"y">>,
      <<"h", "t", " ", "t", "p", ":", "/", "/", "x">> }

UrlPads == { <<>>, <<" ">>, <<"\t", "\n">>, <<" ", "\r", " ">> }

UrlTexts == { left \o body \o right : left \in UrlPads, body \in UrlBodies, right \in UrlPads }

SanitizeUrl ==
    /\ call.fn = "sanitize_url" /\ ret = NoReturn
    /\ ret' = Returned(sanitize_url(call.url))
    /\ UNCHANGED <<call, varsReduce, varsUmap, varsWeb, varsCli>>

\* the caller passes an accepted URL back in
SanitizeAgain ==
    /\ call.fn = "sanitize_url" /\ ret # NoReturn /\ call.pass = 1
    /\ ret.value # PyNone
    /\ call' = [call EXCEPT !.url = ret.value.v, !.pass = 2]
    /\ ret' = NoReturn
    /\ UNCHANGED <<varsReduce, varsUmap, varsWeb, varsCli>>

InitUrl ==
    /\ call \in {[fn |-> "sanitize_url", url |-> u, pass |-> 1, given |-> u] : u \in UrlTexts}
    /\ ret = NoReturn
    /\ IdleReduce
    /\ IdleUmap
    /\ IdleWeb
    /\ IdleCli

NextUrl == SanitizeUrl \/ SanitizeAgain

SpecUrl == InitUrl /\ [][NextUrl]_vars

\* ---- SpecBatch: scripts/batch_process.main
\* a path is the sequence of its components below input_dir, a component a
\* sequence of characters
SUPPORTED_AUDIO_EXTENSIONS ==
    { <<".", "w", "a", "v">>, <<".", "m", "p", "3">>, <<".", "f", "l", "a", "c">>,
      <<".", "o", "g", "g">>, <<".", "m", "4", "a">>, <<".", "a", "a", "c">>,
      <<".", "w", "m", "a">> }

\* ord() of the characters the paths are written in
Ord ==
    ("." :> 46) @@ ("3" :> 51) @@ ("4" :> 52) @@ ("A" :> 65) @@ ("V" :> 86)
    @@ ("W" :> 87) @@ ("a" :> 97) @@ ("b" :> 98) @@ ("c" :> 99) @@ ("e" :> 101)
    @@ ("f" :> 102) @@ ("g" :> 103) @@ ("l" :> 108) @@ ("m" :> 109)
    @@ ("n" :> 110) @@ ("o" :> 111) @@ ("p" :> 112) @@ ("s" :> 115)
    @@ ("t" :> 116) @@ ("u" :> 117) @@ ("v" :> 118) @@ ("w" :> 119)
    @@ ("x" :> 120)

\* Python's < on strings: the first differing character decides, by its
\* code point; a proper prefix is smaller
StrLess(s, t) ==
    \E k \in 1..(Min(Len(s), Len(t)) + 1) :
        /\ \A j \in 1..(k - 1) : s[j] = t[j]
        /\ IF k <= Len(s) /\ k <= Len(t) THEN Ord[s[k]] < Ord[t[k]]
           ELSE k > Len(s) /\ k <= Len(t)

\* Path.__lt__: the lists of components are compared, the first differing
\* component deciding
PathLess(p, q) ==
    \E k \in 1..(Min(Len(p), Len(q)) + 1) :
        /\ \A j \in 1..(k - 1) : p[j] = q[j]
        /\ IF k <= Len(p) /\ k <= Len(q) THEN StrLess(p[k], q[k])
           ELSE k > Len(p) /\ k <= Len(q)

\* sorted() of a set of distinct paths
sorted(paths) ==
    [i \in 1..Cardinality(paths) |->
        CHOOSE p \in paths : Cardinality({q \in paths : PathLess(q, p)}) = i - 1]

PathName(p) == p[Len(p)]

\* Path.stem: the name up to its last dot, when that dot is neither the
\* first nor the last character
PathStem(p) ==
    LET name == PathName(p)
        dots == {i \in 2..(Len(name) - 1) : name[i] = "."}
    IN IF dots = {} THEN name
       ELSE SubSeq(name, 1, (CHOOSE i \in dots : \A k \in dots : k <= i) - 1)

\* directory.rglob("*" + ext): the entries at any depth whose name ends with
\* ext, letter case as written
rglob(tree, ext) ==
    {p \in tree : /\ Len(PathName(p)) >= Len(ext)
                  /\ SubSeq(PathName(p), Len(PathName(p)) - Len(ext) + 1,
                            Len(PathName(p))) = ext}

\* batch_process.find_audio_files
find_audio_files(tree) ==
    sorted(UNION {rglob(tree, ext) : ext \in SUPPORTED_AUDIO_EXTENSIONS})

\* ---- the output directory: one document per stem, absent before it is
\* written; a write that fails after the file was opened leaves it truncated
NoDoc == [file |-> <<>>, state |-> "absent"]
Truncated == [file |-> <<>>, state |-> "truncated"]
Document(audio_path) == [file |-> audio_path, state |-> "complete"]

\* ---- the directories handed to the script
TreeEntries ==
    { << <<"a", ".", "w", "a", "v">> >>,
      << <<"a", ".", "m", "p", "3">> >>,
      << <<"s", "u", "b">>, <<"a", ".", "w", "a", "v">> >>,
      << <<"b", ".", "f", "l", "a", "c">> >>,
      << <<"n", "o", "t", "e", "s", ".", "t", "x", "t">> >>,
      << <<"c", ".", "W", "A", "V">> >> }

Trees == {tree \in SUBSET TreeEntries : Cardinality(tree) <= MaxTree}

AllStems == {PathStem(p) : p \in TreeEntries}

NewBatch(is_dir, tree) ==
    [pc |-> "start", is_dir |-> is_dir, tree |-> tree,
     audio_files |-> <<>>, i |-> 0, y |-> "none", summary |-> "none",
     log |-> <<>>,                       \* the lines printed per file
     outdir |-> [s \in AllStems |-> NoDoc],
     exit |-> "none",                    \* the status the process exits with
     exc |-> NoException]

\* an `except` that reports the failure and lets it end the run
Bad_ReportFail_aborts(rec, e) ==
    [rec EXCEPT !.log = Append(@, [file |-> rec.audio_files[rec.i], status |-> "FAIL",
                                   error |-> e]),
                !.exc = e, !.pc = "raised"]

\* `except Exception as exc: print(f"FAIL ({exc})")`, and the loop goes on
\* to the next file
ReportFail(rec, e) ==
    [rec EXCEPT !.log = Append(@, [file |-> rec.audio_files[rec.i], status |-> "FAIL",
                                   error |-> e]),
                !.y = "none", !.summary = "none",
                !.pc = IF rec.i < Len(rec.audio_files) THEN "load" ELSE "finish",
                !.i = IF rec.i < Len(rec.audio_files) THEN @ + 1 ELSE @]

\* the argument check, the discovery, and the creation of the output directory
BatchStart ==
    /\ cli.pc = "start"
    /\ IF ~cli.is_dir
       THEN cli' = [cli EXCEPT !.exit = "1", !.pc = "exited"]
       ELSE LET found == find_audio_files(cli.tree)
            IN IF found = <<>>
               THEN cli' = [cli EXCEPT !.exit = "0", !.pc = "exited"]
               ELSE \/ cli' = [cli EXCEPT !.audio_files = found, !.i = 1, !.pc = "load"]
                    \/ cli' = [cli EXCEPT !.audio_files = found,
                                          !.exc = [kind |-> "OSError", at |-> "mkdir"],
                                          !.pc = "raised"]
    /\ UNCHANGED <<varsReduce, varsUmap, varsWeb, varsLib>>

\* `y, sr = librosa.load(str(audio_path), sr=args.sr, mono=True)`
BatchLoad ==
    /\ cli.pc = "load"
    /\ \/ cli' = [cli EXCEPT !.y = "waveform", !.pc = "summarize"]
       \/ cli' = ReportFail(cli, [kind |-> "Exception", at |-> "load"])
    /\ UNCHANGED <<varsReduce, varsUmap, varsWeb, varsLib>>

\* `summary = summarize(y, sr=sr)`
BatchSummarize ==
    /\ cli.pc = "summarize"
    /\ \/ cli' = [cli EXCEPT !.summary = "summary", !.pc = "save"]
       \/ cli' = ReportFail(cli, [kind |-> "Exception", at |-> "summarize"])
    /\ UNCHANGED <<varsReduce, varsUmap, varsWeb, varsLib>>

\* `save_json({...}, args.output / f"{audio_path.stem}.json"); print("OK")`:
\* path.write_text opens the file, which creates or truncates it, and then
\* writes the text; either step can raise OSError
BatchSave ==
    /\ cli.pc = "save"
    /\ LET audio_path == cli.audio_files[cli.i]
           stem == PathStem(audio_path)
           last == cli.i = Len(cli.audio_files)
       IN \/ cli' = [cli EXCEPT
                 !.outdir[stem] = Document(audio_path),
                 !.log = Append(@, [file |-> audio_path, status |-> "OK"]),
                 !.y = "none", !.summary = "none",
                 !.pc = IF last THEN "finish" ELSE "load",
                 !.i = IF last THEN @ ELSE @ + 1]
          \/ cli' = ReportFail(cli, [kind |-> "OSError", at |-> "open"])
          \/ cli' = ReportFail([cli EXCEPT !.outdir[stem] = Truncated],
                               [kind |-> "OSError", at |-> "write"])
    /\ UNCHANGED <<varsReduce, varsUmap, varsWeb, varsLib>>

\* `print(f"\nResults saved to {args.output}/")`
BatchFinish ==
    /\ cli.pc = "finish"
    /\ cli' = [cli EXCEPT !.exit = "0", !.pc = "exited"]
    /\ UNCHANGED <<varsReduce, varsUmap, varsWeb, varsLib>>

InitBatch ==
    /\ cli \in {NewBatch(TRUE, tree) : tree \in Trees} \cup {NewBatch(FALSE, {})}
    /\ IdleReduce
    /\ IdleUmap
    /\ IdleWeb
    /\ IdleLib

NextBatch == BatchStart \/ BatchLoad \/ BatchSummarize \/ BatchSave \/ BatchFinish

\* the script is one sequential process: it keeps taking its next step
SpecBatch == InitBatch /\ [][NextBatch]_vars /\ WF_vars(NextBatch)

\* ================================================================== claims
Aligned == Len(X) = Len(times_s) /\ Len(times_s) = Len(energy)

Original == <<X, times_s, energy>>

CeilDiv(n, k) == (n + k - 1) \div k

\* C1: for every stride k >= 2 and every aligned input of n frames,
\* stride_downsample returns arrays of length ceil(n/k), and in each of the
\* three arrays reduced[i] == original[i*k] for every i with i*k < n.
C1_StrideKeepsEveryKth ==
    (rpc = "returned" /\ stride >= 2 /\ Aligned) =>
        \A j \in 1..3 :
            /\ Len(reduced[j]) = CeilDiv(Len(X), stride)
            /\ \A i \in 0..(Len(X) - 1) :
                   i * stride < Len(X) =>
                       /\ i + 1 <= Len(reduced[j])
                       /\ reduced[j][i + 1] = Original[j][i * stride + 1]

C1_Witness ==
    /\ rpc = "returned" /\ stride = 2 /\ Aligned /\ Len(X) = 3
    /\ Len(reduced[1]) = 2
    /\ times_s = <<0, 1, 1>> /\ reduced[2] = <<0, 1>>

\* C2: stride_downsample with stride = 1 is the identity: every returned
\* array has the length of the corresponding input and the same element at
\* every index.
C2_StrideOneIsIdentity ==
    (rpc = "returned" /\ stride = 1) =>
        \A j \in 1..3 :
            /\ Len(reduced[j]) = Len(Original[j])
            /\ \A i \in 1..Len(Original[j]) : reduced[j][i] = Original[j][i]

C2_Witness ==
    /\ rpc = "returned" /\ stride = 1
    /\ X = <<1, 0, 1>> /\ times_s = <<0, 0, 1>> /\ energy = <<1, 1, 0>>
    /\ reduced = <<X, times_s, energy>>

\* the frames a stride keeps, as the claim states them: every frame whose
\* 0-based index is a multiple of the stride
KeptFrames(n, k) == {f \in 0..(n - 1) : f % k = 0}

NthKept(n, k, i) ==
    CHOOSE f \in KeptFrames(n, k) :
        Cardinality({g \in KeptFrames(n, k) : g < f}) = i - 1

\* C3: the Frame Reducer preserves alignment: when the feature matrix and
\* the scalar arrays have the same length then, for every stride >= 1, all
\* returned arrays have the same length and position i of every returned
\* array holds the value of the same original frame.
C3_ReducerPreservesAlignment ==
    (rpc = "returned" /\ stride >= 1 /\ Aligned) =>
        /\ Len(reduced[1]) = Len(reduced[2])
        /\ Len(reduced[2]) = Len(reduced[3])
        /\ Len(reduced[1]) = Cardinality(KeptFrames(Len(X), stride))
        /\ \A i \in 1..Len(reduced[1]) : \A j \in 1..3 :
               reduced[j][i] = Original[j][NthKept(Len(X), stride, i) + 1]

C3_Witness ==
    /\ rpc = "returned" /\ stride = 3 /\ Aligned /\ Len(X) = 4
    /\ X = <<0, 0, 0, 1>> /\ times_s = <<1, 0, 0, 0>> /\ energy = <<1, 1, 0, 1>>
    /\ reduced = <<(<<0, 1>>), (<<1, 0>>), (<<1, 1>>)>>

Rows(pX) == pX.shape[1]

\* C4: for a 2-D feature matrix, compute_umap_3d and compute_umap_2d fail
\* with a validation error (ValueError) whenever frame_count < n_neighbors
\* and return an embedding whenever frame_count == n_neighbors.
C4_NeighborBoundary ==
    ndim(umapX) = 2 =>
        \A out \in {out3d, out2d} :
            out # NoOutcome =>
                /\ Rows(umapX) < umapCfg.n_neighbors => out.kind = "ValueError"
                /\ Rows(umapX) = umapCfg.n_neighbors => out.kind = "embedding"

C4_Witness ==
    /\ umapX.shape = <<3, 2>> /\ umapCfg.n_neighbors = 3
    /\ out3d.kind = "embedding" /\ out2d.kind = "embedding"

\* C5: whenever the projection succeeds, the embedding has as many rows as
\* the input feature matrix, and 3 columns from compute_umap_3d, 2 columns
\* from compute_umap_2d.
C5_EmbeddingShape ==
    /\ out3d.kind = "embedding" => out3d.shape = <<Rows(umapX), 3>>
    /\ out2d.kind = "embedding" => out2d.shape = <<Rows(umapX), 2>>

C5_Witness ==
    /\ umapX.shape = <<4, 2>>
    /\ out3d.kind = "embedding" /\ out3d.shape = <<4, 3>>
    /\ out2d.kind = "embedding" /\ out2d.shape = <<4, 2>>

\* C6: every input that is not exactly 2-dimensional is rejected with a
\* validation error naming the offending shape; the dimensionality check
\* comes before the row-count check (a non-2-D input never gets the
\* too-few-frames error); and whenever the projection fails the projection
\* primitive was not invoked and there is no embedding.
C6_RejectsNon2D ==
    \A out \in {out3d, out2d} :
        out # NoOutcome =>
            /\ ndim(umapX) # 2 =>
                   /\ out.kind = "ValueError"
                   /\ out.text = "Expected 2D feature matrix, got shape"
                   /\ out.shape = umapX.shape
            /\ (ndim(umapX) # 2 \/ Rows(umapX) < umapCfg.n_neighbors) =>
                   /\ out.kind # "embedding"
                   /\ out.fit_calls = 0

C6_Witness ==
    /\ umapX.shape = <<2>> /\ umapCfg.n_neighbors = 4
    /\ out3d.kind = "ValueError" /\ out3d.shape = <<2>> /\ out3d.fit_calls = 0
    /\ out2d.kind = "ValueError" /\ out2d.shape = <<2>> /\ out2d.fit_calls = 0

\* the adjustments that give the projection more frames
MoreFramesAdjustments == {"Decrease stride", "provide a longer recording"}

\* C7: when the projection fails because frame_count < n_neighbors, the
\* error names the actual frame count and the configured neighbor count,
\* and every adjustment it advises is one that increases the frame count
\* (decrease the stride, or provide a longer recording).
C7_ErrorGuidesToMoreFrames ==
    \A out \in {out3d, out2d} :
        (out # NoOutcome /\ ndim(umapX) = 2 /\ Rows(umapX) < umapCfg.n_neighbors) =>
            /\ out.kind = "ValueError"
            /\ out.frames = Rows(umapX)
            /\ out.n_neighbors = umapCfg.n_neighbors
            /\ out.advice \subseteq MoreFramesAdjustments

\* the files in the temporary directory that request r created
FilesOf(r) == {n \in TmpNames : tmpdir[n].exists /\ tmpdir[n].owner = r}

\* C8: temporary audio storage created by a visualize request is released
\* on every exit path: once visualize has returned, the temporary file it
\* created no longer exists.
C8_TempFileReleased ==
    \A r \in Requests : req[r].pc = "done" => FilesOf(r) = {}

\* what visualize answers to `form` when no other request runs; `fault` is
\* the I/O failure the run meets: "none", "mkstemp" or "write"
AloneResponse(form, fault) ==
    LET named == UploadNamed(form)
        fetched == fetch_audio_from_url(form.audio_url, form.clip)
        byUrl == ~named /\ ~form.audio_url.blank
        raw == IF named THEN AllBytes(form.clip)
               ELSE IF byUrl /\ fetched.kind = "ok" THEN fetched.data
               ELSE EmptyBytes
        filename == IF named THEN form.upload.filename
                    ELSE IF byUrl /\ fetched.kind = "ok" THEN fetched.filename
                    ELSE DefaultName
        fs == [n \in {1} |-> [exists |-> TRUE, data |-> raw, owner |-> 0, suffix |-> ""]]
        loaded == load_audio_mono_from_path(fs, 1, DEFAULT_AUDIO_FEATURE_CONFIG.sr)
        cstride == Max(1, Min(form.stride, 50))
        cfg == [DEFAULT_UMAP_CONFIG EXCEPT
                   !.n_neighbors = Max(2, Min(form.n_neighbors, 200)),
                   !.min_dist = Max(0, Min(form.min_dist, 10))]
    IN IF byUrl /\ fetched.kind # "ok" THEN FetchFailed(fetched)
       ELSE IF raw.size_mb = 0 THEN NoAudioReceived
       ELSE IF fault = "mkstemp"
       THEN FailedToVisualize([kind |-> "OSError", text |-> "mkstemp failed"])
       ELSE IF fault = "write"
       THEN FailedToVisualize([kind |-> "OSError", text |-> "write failed"])
       ELSE IF loaded.kind # "ok" THEN FailedToVisualize(loaded)
       ELSE
         LET full == extract_log_mel_frames(loaded.y, loaded.sr,
                                            DEFAULT_AUDIO_FEATURE_CONFIG)
             thin == stride_downsample_views(full[1], full[2], full[3], cstride)
             emb == compute_umap_3d(
                        [shape |-> <<thin[1].n, DEFAULT_AUDIO_FEATURE_CONFIG.n_mels>>],
                        cfg)
             chosen == normalize_color_by(form.color_by)
             fig == IF form.multi_view
                    THEN build_multiview_figure(emb, thin[2], thin[3], chosen,
                                                form.colorscale)
                    ELSE build_singleview_figure(emb, thin[2], thin[3], chosen,
                                                 form.colorscale)
         IN IF emb.kind # "embedding" THEN FailedToVisualize(emb)
            ELSE IF fig.kind # "ok" THEN FailedToVisualize(fig)
            ELSE build_result_page(
                     filename,
                     [duration_samples |-> loaded.y.samples, sr |-> loaded.sr,
                      frames |-> thin[1].n, stride |-> cstride,
                      color_by |-> chosen, multi_view |-> form.multi_view],
                     << [title |-> "3D embedding (UMAP)", html |-> fig.fig],
                        [title |-> "Waveform",
                         html |-> build_waveform_figure(loaded.y, loaded.sr).fig],
                        [title |-> "Log-mel spectrogram",
                         html |-> build_mel_spectrogram_figure(thin[1], thin[2]).fig],
                        [title |-> "Energy",
                         html |-> build_energy_figure(thin[2], thin[3]).fig] >>)

AloneResponses(form) == {AloneResponse(form, fault) : fault \in {"none", "mkstemp", "write"}}

\* C9: two visualize requests running concurrently, under any interleaving
\* of their steps, share no mutable state: each request writes, reads and
\* deletes only the temporary file it created, no file ever belongs to a
\* request that has not created it, and the response of each request is a
\* response the same request gets when it runs alone.
C9_RequestsIndependent ==
    \A r \in Requests :
        /\ ~req[r].foreign
        /\ req[r].f_name # NoPath /\ req[r].pc \in {"write", "load"} =>
               req[r].f_name \in FilesOf(r)
        /\ req[r].pc = "done" => req[r].response \in AloneResponses(req[r].form)

\* both requests are past the whole pipeline at once, each with its own
\* temporary file still on disk, and the first has already built its page
C9_Witness ==
    /\ req[1].pc = "finally" /\ req[1].response.status = 200
    /\ req[2].pc = "respond"
    /\ req[1].form.clip.name = "short" /\ req[2].form.clip.name = "big"
    /\ FilesOf(1) = {req[1].tmp_path} /\ FilesOf(2) = {req[2].tmp_path}
    /\ req[1].response.summary.frames = 22
    /\ req[2].arrays[1].clip = "big"

\* the limits of the serving layer: the upload size limit of
\* validate_file_size and MAX_AUDIO_DURATION_S
OverLimit(clip) ==
    \/ ~validate_file_size(clip.size_mb * 1024 * 1024)
    \/ clip.duration_s > MAX_AUDIO_DURATION_S

\* C10: visualize enforces the size and duration limits before it invokes
\* the pipeline: for an input larger than 50 MB or longer than 600 s no
\* pipeline stage (load, extract, stride, umap) is ever started.
C10_LimitsBeforePipeline ==
    \A r \in Requests :
        (req[r].pc # "absent" /\ OverLimit(req[r].form.clip)) => req[r].stages = <<>>

\* ---- C11: no partial results.  Every response of a visualize request is
\* either the result page with all four sections (embedding, waveform,
\* spectrogram, energy, in this order) or an error response that carries no
\* section at all; a failure while rendering never yields a page with some
\* of the sections.
SectionTitles == <<"3D embedding (UMAP)", "Waveform", "Log-mel spectrogram", "Energy">>

TitlesOf(sections) == [i \in 1..Len(sections) |-> sections[i].title]

C11_NoPartialResults ==
    \A r \in Requests :
        LET response == req[r].response
        IN response # NoResponse =>
              IF response.status = 200
              THEN /\ req[r].exc = NoException
                   /\ TitlesOf(response.sections) = SectionTitles
              ELSE /\ "sections" \notin DOMAIN response
                   /\ response.status \in {400, 500}

\* the pipeline ran to the embedding, rendering the embedding figure failed,
\* and the request was answered with the error response
C11_Witness ==
    /\ req[1].pc = "done"
    /\ req[1].emb.kind = "embedding"
    /\ req[1].exc.kind = "ValueError"
    /\ req[1].exc.text = "Invalid value for colorscale"
    /\ req[1].response = FailedToVisualize(req[1].exc)

\* ---- C12: in the core pipeline (load, extract, stride-reduce, project) a
\* failure of a stage propagates to the caller at once: the stages run in
\* order, each at most once, the projection calls its fit at most once, and
\* once a stage has raised, the run has ended with exactly that error, no
\* later stage has been invoked and nothing has been written.
CorePipeline == <<"load", "extract", "stride", "umap">>

IsPrefix(s, t) == Len(s) <= Len(t) /\ s = SubSeq(t, 1, Len(s))

C12_FailurePropagates ==
    cli # NoRun =>
        /\ IsPrefix(cli.stages, CorePipeline)
        /\ cli.emb # NoOutcome => cli.emb.fit_calls = 1
        /\ cli.exc # NoException =>
              /\ cli.pc = "raised"
              /\ cli.stages = SubSeq(CorePipeline, 1, cli.raised_at)
              /\ cli.output = "absent"
              /\ "fit_calls" \in DOMAIN cli.exc => cli.exc.fit_calls = 0
        /\ cli.pc = "raised" => cli.exc # NoException

\* the projection, the last stage, failed after the three stages before it
\* had run: the run ended there with the projection's error
C12_Witness ==
    /\ cli # NoRun
    /\ cli.pc = "raised"
    /\ cli.stages = CorePipeline
    /\ cli.exc.kind = "ValueError"
    /\ cli.exc.text = "Too few frames"

\* ---- C13: load_audio_mono_from_path fails with a load error when the path
\* does not exist, and then without having decoded anything, and when the
\* file decodes to an empty waveform; whenever it returns, the waveform has
\* at least one sample.
LoadErrors == {"FileNotFoundError", "DecodeError", "ValueError"}

C14_ColorModeResolution ==
    (call.fn = "_marker_values" /\ ret # NoReturn) =>
        /\ ret.kind = "returned"
        /\ call.color_by = "time" => ret.value[1] = call.times_s
        /\ call.color_by = "energy" => ret.value[1] = call.energy
        /\ (call.color_by = "flatness" /\ call.flatness # NoArray) =>
              ret.value[1] = call.flatness
        /\ (call.color_by = "flatness" /\ call.flatness = NoArray) =>
              ret.value = <<call.energy, "energy">>

\* flatness mode without a flatness array has resolved to the energy array
C14_Witness ==
    /\ call.fn = "_marker_values"
    /\ call.color_by = "flatness"
    /\ call.flatness = NoArray
    /\ ret # NoReturn
    /\ ret.value[1] = call.energy
    /\ call.energy # call.times_s

\* ---- C15: the tags of summarize follow the threshold rules for every
\* combination of tempo, mean zero-crossing rate and mean centroid:
\* "fast-tempo" iff tempo > 120, "slow-tempo" iff tempo < 80 (never both,
\* neither in [80, 120]), "noisy" iff mean ZCR > 0.1, "bright" iff mean
\* centroid > 3000; there are at most three tags and none twice.
TagsOf(summary) == {summary.tags[i] : i \in 1..Len(summary.tags)}

C15_TagRules ==
    (call.fn = "summarize" /\ ret # NoReturn) =>
        LET tags == TagsOf(ret.value)
        IN /\ ("fast-tempo" \in tags) <=> (call.y.tempo_bpm_x10 > 120 * 10)
           /\ ("slow-tempo" \in tags) <=> (call.y.tempo_bpm_x10 < 80 * 10)
           /\ ~({"fast-tempo", "slow-tempo"} \subseteq tags)
           /\ ("noisy" \in tags) <=> (call.y.zcr_mean_x1000 > 100)
           /\ ("bright" \in tags) <=> (call.y.centroid_mean > 3000)
           /\ tags \subseteq {"fast-tempo", "slow-tempo", "noisy", "bright"}
           /\ Len(ret.value.tags) = Cardinality(tags)
           /\ Len(ret.value.tags) <= 3

\* a tempo exactly at the fast threshold with the other two measurements
\* above theirs: two tags, no tempo tag
C15_Witness ==
    /\ call.fn = "summarize"
    /\ call.y.tempo_bpm_x10 = 1200
    /\ ret # NoReturn
    /\ ret.value.tags = <<"noisy", "bright">>

\* ---- C16: after feature extraction, for every waveform and every config,
\* the time array, the energy array and the feature matrix have the same
\* number of frames, and the feature matrix has exactly n_mels columns.
C16_ExtractAligned ==
    (call.fn = "extract_log_mel_frames" /\ ret # NoReturn) =>
        LET pX == ret.value[1]
            pT == ret.value[2]
            pE == ret.value[3]
        IN /\ pX.n = pT.n /\ pT.n = pE.n
           /\ pX.n >= 1
           /\ pX.cols = call.cfg.n_mels
           /\ pT.cols = 0 /\ pE.cols = 0

\* several frames, and a number of mel bands different from it
C16_Witness ==
    /\ call.fn = "extract_log_mel_frames"
    /\ ret # NoReturn
    /\ ret.value[1].n = 4
    /\ ret.value[1].cols = 3
    /\ ret.value[3].n = 4

\* ---- C17: the end-to-end scenario.  A waveform of 22050 samples at
\* 22050 Hz with hop 512 and 128 mel bands gives a 44 x 128 feature matrix;
\* stride 2 reduces it to 22 rows; with 15 neighbours the projection passes
\* its validation (22 >= 15) and returns a 22 x 3 embedding.
Scenario ==
    /\ cli.args.input = "sine.wav"
    /\ cli.args.hop_length = 512 /\ cli.args.n_mels = 128
    /\ cli.args.stride = 2 /\ cli.args.n_neighbors = 15

C17_EndToEndScenario ==
    (cli # NoRun /\ Scenario) =>
        /\ Len(cli.stages) >= 1 => cli.y.samples = 22050 /\ cli.sr = 22050
        /\ Len(cli.stages) = 2 =>
              cli.arrays[1].n = 44 /\ cli.arrays[1].cols = 128
        /\ Len(cli.stages) >= 3 =>
              cli.arrays[1].n = 22 /\ cli.arrays[1].cols = 128
        /\ Len(cli.stages) = 4 =>
              /\ cli.emb.kind = "embedding"
              /\ cli.emb.shape = <<22, 3>>
              /\ cli.exc.kind \in {"none", "OSError"}

\* the scenario has passed the projection
C17_Witness ==
    /\ cli # NoRun
    /\ Scenario
    /\ cli.pc = "figure"
    /\ cli.stages = CorePipeline
    /\ cli.emb.kind = "embedding"

\* ---- C18: features_to_csv emits a header row that is exactly "time_s"
\* followed by the supplied column names in insertion order, and
\* 1 + frame_count rows in all, frame_count being the length of the time
\* array.  The rows are the records a CSV reader finds in the text.
\* a character is outside quotes when an even number of quote characters
\* precede it (a doubled quote inside a quoted field counts twice)
Outside(text, i) == Cardinality({j \in 1..(i - 1) : text[j] = "\""}) % 2 = 0

\* the pieces of `text` between the positions in `cuts`
Segments(text, cuts) ==
    LET Nth(k) == CHOOSE i \in cuts : Cardinality({j \in cuts : j <= i}) = k
        last == Cardinality(cuts) + 1
    IN [k \in 1..last |->
           SubSeq(text, IF k = 1 THEN 1 ELSE Nth(k - 1) + 1,
                        IF k = last THEN Len(text) ELSE Nth(k) - 1)]

RECURSIVE Undouble(_)
Undouble(field) ==
    IF Len(field) < 2 THEN field
    ELSE IF field[1] = "\"" /\ field[2] = "\""
    THEN <<"\"">> \o Undouble(SubSeq(field, 3, Len(field)))
    ELSE <<Head(field)>> \o Undouble(Tail(field))

Unquote(field) ==
    IF Len(field) >= 2 /\ field[1] = "\"" /\ field[Len(field)] = "\""
    THEN Undouble(SubSeq(field, 2, Len(field) - 1))
    ELSE field

\* the fields of one record: cut at the commas outside quotes
FieldsOf(record) ==
    LET fields == Segments(record, {i \in 1..Len(record) :
                                       record[i] = "," /\ Outside(record, i)})
    IN [k \in 1..Len(fields) |-> Unquote(fields[k])]

\* the records of a CSV text: cut at the line feeds outside quotes, a
\* carriage return before the line feed belonging to the terminator
RowsOf(text) ==
    LET lines == Segments(text, {i \in 1..Len(text) :
                                    text[i] = "\n" /\ Outside(text, i)})
        Chomp(l) == IF l # <<>> /\ l[Len(l)] = "\r" THEN SubSeq(l, 1, Len(l) - 1) ELSE l
        n == IF lines[Len(lines)] = <<>> THEN Len(lines) - 1 ELSE Len(lines)
    IN [k \in 1..n |-> FieldsOf(Chomp(lines[k]))]

IsScalar(obj) == obj.t \in {"str", "int", "float", "bool", "None"}

IsPlain(obj) ==
    \/ IsScalar(obj)
    \/ obj.t = "list" /\ \A i \in 1..Len(obj.v) : IsScalar(obj.v[i])

ElementsOf(decoded) == [i \in 1..Len(decoded.v) |-> decoded.v[i].v]

C19_JsonRoundTrip ==
    (call.fn = "to_json" /\ ret # NoReturn) =>
        LET fields == call.data.v
            n == Len(fields)
        IN /\ (\A i \in 1..n : IsPlain(fields[i].value)) =>
                 /\ ret.kind = "returned"
                 /\ json_loads(ret.value) = call.data
           /\ (\A i \in 1..n : IsPlain(fields[i].value) \/ fields[i].value.t = "ndarray") =>
                 /\ ret.kind = "returned"
                 /\ \A i \in 1..n :
                       LET back == json_loads(ret.value).v[i]
                       IN /\ back.key = fields[i].key
                          /\ IsPlain(fields[i].value) => back.value = fields[i].value
                          /\ fields[i].value.t = "ndarray" =>
                                /\ back.value.t = "list"
                                /\ ElementsOf(back.value) = fields[i].value.v

\* a record with a whole-number float and a list came back equal
C19_Witness ==
    /\ call.fn = "to_json"
    /\ call.data = PyDict(<<[key |-> "score", value |-> PyFloat(100)],
                            [key |-> "name",
                             value |-> PyList(<<PyStr("a"), PyInt(1)>>)]>>)
    /\ ret # NoReturn
    /\ json_loads(ret.value) = call.data

\* ---- C20: a default-constructed UmapConfig has n_neighbors == 15,
\* min_dist == 0.1 (1 tenth) and metric == "euclidean".
C20_UmapConfigDefaults ==
    (call.fn = "UmapConfig" /\ DOMAIN call.kwargs = {} /\ ret # NoReturn) =>
        /\ ret.value.n_neighbors = 15
        /\ ret.value.min_dist = 1
        /\ ret.value.metric = "euclidean"

\* ---- C21: get_preset looks a preset up case-insensitively.  For every
\* registered key and every upper/lower-casing of it, get_preset returns the
\* preset registered under the key; for every name whose lower-cased form is
\* no registered key it returns None; it raises in neither case.
IsCasingOf(name, key) ==
    /\ Len(name) = Len(key)
    /\ \A i \in 1..Len(key) : name[i] \in {key[i], upper(key)[i]}

C21_GetPresetCaseInsensitive ==
    (call.fn = "get_preset" /\ ret # NoReturn) =>
        /\ ret.kind = "returned"
        /\ \A key \in DOMAIN ALL_PRESETS :
              IsCasingOf(call.name, key) => ret.value = ALL_PRESETS[key]
        /\ (\A key \in DOMAIN ALL_PRESETS : ~IsCasingOf(call.name, key)) =>
              ret.value = PyNone

\* a mixed-case spelling of a key has found the key's preset
C21_Witness ==
    /\ call.fn = "get_preset"
    /\ call.name = <<"S", "p", "E", "e", "C", "H">>
    /\ ret # NoReturn
    /\ ret.value = PRESET_SPEECH

\* ---- C22: every preset in ALL_PRESETS is well-formed: its colorscale is a
\* member of SUPPORTED_COLORSCALES and its stride is at least 1; so is every
\* preset a lookup returns.
WellFormed(preset) ==
    /\ preset.colorscale \in SUPPORTED_COLORSCALES
    /\ preset.stride >= 1

C22_PresetsWellFormed ==
    /\ \A key \in DOMAIN ALL_PRESETS : WellFormed(ALL_PRESETS[key])
    /\ (call.fn = "get_preset" /\ ret # NoReturn /\ ret.value # PyNone) =>
          WellFormed(ret.value)

\* the preset with the smallest stride has been looked up
C22_Witness ==
    /\ call.fn = "get_preset"
    /\ ret # NoReturn
    /\ ret.value = PRESET_NATURE
    /\ ret.value.stride = 1
    /\ ret.value.colorscale = "Plasma"

\* ---- C23: for bounds with low <= high, clamp and clamp_int return a result
\* r with low <= r <= high, r equal to the value when the value lies within
\* the bounds, to low when the value is below low and to high when it is above
\* high; clamping the result again with the same bounds returns it unchanged.
C23_ClampWithinBounds ==
    (call.fn \in {"clamp", "clamp_int"} /\ ret # NoReturn /\ call.low <= call.high) =>
        /\ ret.kind = "returned"
        /\ call.low <= ret.value /\ ret.value <= call.high
        /\ (call.low <= call.value /\ call.value <= call.high) => ret.value = call.value
        /\ call.value < call.low => ret.value = call.low
        /\ call.value > call.high => ret.value = call.high
        /\ call.pass = 2 => ret.value = call.value

\* a value above the upper bound was clamped to it, and the second clamp has
\* returned the bound again
C23_Witness ==
    /\ call.fn = "clamp"
    /\ ret # NoReturn
    /\ call.pass = 2
    /\ call.low < call.high
    /\ call.given > call.high
    /\ ret.value = call.high

\* ---- C24: sanitize_url returns the whitespace-stripped URL exactly when the
\* stripped text begins with "http://" or "https://", and None otherwise
\* (empty, whitespace only, another scheme); sanitizing a returned URL again
\* returns it unchanged.
\* core is text with the whitespace around it removed
IsStripOf(core, text) ==
    \E before \in 0..Len(text) :
        /\ before + Len(core) <= Len(text)
        /\ \A i \in 1..before : text[i] \in Whitespace
        /\ \A i \in 1..Len(core) : text[before + i] = core[i]
        /\ \A i \in (before + Len(core) + 1)..Len(text) : text[i] \in Whitespace
        /\ core # <<>> => (core[1] \notin Whitespace /\ core[Len(core)] \notin Whitespace)

BeginsWithScheme(core) ==
    \E scheme \in {HttpPrefix, HttpsPrefix} :
        /\ Len(core) >= Len(scheme)
        /\ \A i \in 1..Len(scheme) : core[i] = scheme[i]

C24_SanitizeUrl ==
    (call.fn = "sanitize_url" /\ ret # NoReturn) =>
        /\ ret.kind = "returned"
        /\ \A i \in 1..(Len(call.url) + 1), j \in 0..Len(call.url) :
              LET core == SubSeq(call.url, i, j)
              IN  IsStripOf(core, call.url) =>
                      ret.value = IF BeginsWithScheme(core) THEN PyStr(core) ELSE PyNone
        /\ call.pass = 2 => ret.value = PyStr(call.url)

\* a URL given with whitespace on both sides was returned without it, and
\* sanitizing the result has returned it again
C24_Witness ==
    /\ call.fn = "sanitize_url"
    /\ ret # NoReturn
    /\ call.pass = 2
    /\ call.given = <<" ">> \o HttpsPrefix \o <<"x", "\t", "\n">>
    /\ ret.value = PyStr(HttpsPrefix \o <<"x">>)

\* ---- C25: visualize enters the processing pipeline only with non-empty
\* audio bytes.  An upload with a filename takes precedence over audio_url:
\* the URL is then never fetched.  When neither source yields bytes, or the
\* URL fetch fails, the request is answered 400, no temporary file is ever
\* created for it and no pipeline stage is invoked.
PastSourceCheck(rec) ==
    \/ rec.pc \notin {"absent", "start", "check_raw", "done"}
    \/ rec.f_name # NoPath
    \/ rec.tmp_path # NoPath
    \/ rec.stages # <<>>
    \/ rec.response.status \in {200, 500}

FetchFails(form) ==
    /\ ~UploadNamed(form)
    /\ ~form.audio_url.blank
    /\ (form.audio_url.scheme \notin {"http", "https"} \/ ~form.audio_url.up)

C25_OnlyNonEmptyAudioEntersPipeline ==
    \A r \in Requests :
        /\ PastSourceCheck(req[r]) => req[r].raw.size_mb > 0
        /\ (UploadNamed(req[r].form) /\ req[r].pc \notin {"absent", "start"}) =>
              /\ ~req[r].fetched
              /\ req[r].raw = AllBytes(req[r].form.clip)
              /\ req[r].filename = req[r].form.upload.filename
        /\ (req[r].pc = "done" /\ (req[r].raw.size_mb = 0 \/ FetchFails(req[r].form))) =>
              /\ req[r].response.status = 400
              /\ ~PastSourceCheck(req[r])
        /\ req[r].response.status = 400 =>
              /\ ~PastSourceCheck(req[r])
              /\ \A n \in TmpNames : tmpdir[n].owner # r

\* a request carrying both an empty upload with a filename and a reachable
\* URL was answered 400 without the URL being fetched
C25_Witness ==
    /\ req[1].pc = "done"
    /\ UploadNamed(req[1].form)
    /\ req[1].form.audio_url.up
    /\ req[1].form.clip.size_mb = 0
    /\ ~req[1].fetched
    /\ req[1].response = NoAudioReceived
    /\ req[1].f_name = NoPath

\* ---- C26: the parameters visualize hands to the pipeline are clamped:
\* stride to [1, 50], n_neighbors to [2, 200], min_dist to [0, 1] (0..10 in
\* tenths); a submitted value inside its range is handed on unchanged, one
\* outside it becomes the nearer end of the range.
Clamped(given, used, low, high) ==
    /\ low <= used /\ used <= high
    /\ (low <= given /\ given <= high) => used = given
    /\ given < low => used = low
    /\ given > high => used = high

C26_ParametersClamped ==
    \A r \in Requests :
        PastSourceCheck(req[r]) =>
            /\ Clamped(req[r].form.stride, req[r].stride, 1, 50)
            /\ Clamped(req[r].form.n_neighbors, req[r].n_neighbors, 2, 200)
            /\ Clamped(req[r].form.min_dist, req[r].min_dist, 0, 10)
            /\ req[r].tmp_path # NoPath =>
                  /\ req[r].umap_cfg.n_neighbors = req[r].n_neighbors
                  /\ req[r].umap_cfg.min_dist = req[r].min_dist
            /\ (\E i \in 1..Len(req[r].stages) : req[r].stages[i] = "stride") =>
                  \A j \in 1..3 : req[r].arrays[j].step = req[r].stride

\* a request that submitted stride 51, n_neighbors 1 and min_dist -0.1 has
\* reduced its frames with stride 50 and projected them with 2 neighbours
\* and min_dist 0
C26_Witness ==
    /\ req[1].form.stride = 51
    /\ req[1].form.n_neighbors = 1
    /\ req[1].form.min_dist = -1
    /\ req[1].emb # NoOutcome
    /\ req[1].arrays[1].step = 50
    /\ req[1].umap_cfg.n_neighbors = 2
    /\ req[1].umap_cfg.min_dist = 0

\* ---- C27: stride_downsample does not fail on a stride outside its
\* contract: for every stride <= 1, zero and negative strides included, it
\* returns the three inputs themselves, in their order, neither reversed nor
\* emptied, and raises nothing.
C27_NonPositiveStrideReturnsInputs ==
    (rpc = "returned" /\ stride <= 1) =>
        /\ Len(reduced) = 3
        /\ reduced[1] = X
        /\ reduced[2] = times_s
        /\ reduced[3] = energy

\* a negative stride on arrays that differ from their reversals
C27_Witness ==
    /\ rpc = "returned"
    /\ stride = -1
    /\ X = <<1, 0, 0>> /\ times_s = <<0, 1, 1>> /\ energy = <<0, 0, 1>>
    /\ reduced = <<<<1, 0, 0>>, <<0, 1, 1>>, <<0, 0, 1>>>>

\* ---- C28: features_to_csv writes a rectangular table whatever the lengths
\* of the columns.  Every data row has exactly 1 + (number of columns)
\* fields; for a frame a column does not reach the field is empty; values of
\* a column beyond the last frame are dropped; no error is raised.
C28_CsvRectangular ==
    (call.fn = "features_to_csv" /\ ret # NoReturn) =>
        /\ ret.kind = "returned"
        /\ LET rows == RowsOf(ret.value)
               n_frames == Len(call.times_s)
           IN /\ Len(rows) = 1 + n_frames
              /\ \A i \in 1..n_frames :
                    /\ Len(rows[i + 1]) = 1 + Len(call.columns)
                    /\ rows[i + 1][1] = format_f(call.times_s[i], 4)
                    /\ \A k \in 1..Len(call.columns) :
                          rows[i + 1][k + 1] =
                              IF i <= Len(call.columns[k].values)
                              THEN format_f(call.columns[k].values[i], 6)
                              ELSE <<>>

\* two frames; the first column stops after the first frame and the second
\* column runs on past the last: the second row has an empty field for the
\* first column, and the table stops at the second frame
C28_Witness ==
    /\ call.fn = "features_to_csv"
    /\ ret # NoReturn
    /\ Len(call.times_s) = 2
    /\ Len(call.columns) = 2
    /\ Len(call.columns[1].values) = 1
    /\ Len(call.columns[2].values) = 3
    /\ Len(RowsOf(ret.value)) = 3
    /\ Len(RowsOf(ret.value)[3]) = 3
    /\ RowsOf(ret.value)[3][2] = <<>>
    /\ RowsOf(ret.value)[3][3] # <<>>

\* ---- C29: the web path never reaches flatness colouring.  Whatever mode
\* the form submits, the embedding figure is coloured by the stride-reduced
\* energy array when the mode is "energy" and by the stride-reduced time
\* array for every other mode, "flatness" and unknown strings included; its
\* colour bar is labelled accordingly and never "flatness".
EmbeddingSections(rec) ==
    {i \in 1..Len(rec.sections) : rec.sections[i].title = "3D embedding (UMAP)"}

C29_WebNeverColorsByFlatness ==
    \A r \in Requests :
        \A i \in EmbeddingSections(req[r]) :
            LET fig == req[r].sections[i].html
            IN /\ fig.color.step = req[r].stride
               /\ fig.color # NoArray
               /\ IF req[r].form.color_by = "energy"
                  THEN /\ fig.color = req[r].arrays[3]
                       /\ fig.color.signal = "energy"
                       /\ fig.colorbar = "energy"
                  ELSE /\ fig.color = req[r].arrays[2]
                       /\ fig.color.signal = "times_s"
                       /\ fig.colorbar = "time (s)"

\* a request that asked for flatness colouring has been answered with an
\* embedding coloured by time
C29_Witness ==
    /\ req[1].form.color_by = "flatness"
    /\ req[1].response.status = 200
    /\ EmbeddingSections(req[1]) # {}
    /\ \A i \in EmbeddingSections(req[1]) :
          req[1].sections[i].html.colorbar = "time (s)"

\* ---- C30: the batch processor handles every discovered audio file exactly
\* once, in sorted order, and always terminates.  A failure while loading,
\* summarizing or saving one file is reported as FAIL for that file only,
\* writes no result for it, and never prevents the remaining files from
\* being processed.
\* the entries of the tree that carry a supported extension, as the claim
\* understands "discovered"
Discovered(tree) ==
    {p \in tree : \E ext \in SUPPORTED_AUDIO_EXTENSIONS :
        /\ Len(PathName(p)) >= Len(ext)
        /\ \A k \in 1..Len(ext) : PathName(p)[Len(PathName(p)) - Len(ext) + k] = ext[k]}

BatchTerminated == cli.pc \in {"exited", "raised"}

C30_BatchInvariant ==
    cli.pc \notin {"absent", "start"} =>
        LET files == cli.audio_files
            log == cli.log
        IN \* discovery: every audio file once, in ascending order
           /\ (cli.is_dir /\ Discovered(cli.tree) # {}) =>
                 /\ {files[k] : k \in 1..Len(files)} = Discovered(cli.tree)
                 /\ Len(files) = Cardinality(Discovered(cli.tree))
                 /\ \A j, k \in 1..Len(files) : j < k => PathLess(files[j], files[k])
           \* handling: the k-th line is about the k-th file, one line each
           /\ Len(log) <= Len(files)
           /\ \A k \in 1..Len(log) : log[k].file = files[k]
           /\ cli.pc \in {"load", "summarize", "save"} => Len(log) = cli.i - 1
           \* a failure of one file does not end the run
           /\ cli.pc = "raised" => (cli.exc.at = "mkdir" /\ log = <<>>)
           /\ (cli.pc = "exited" /\ files # <<>>) => Len(log) = Len(files)
           \* a file reported FAIL has no result in the output directory
           /\ \A k \in 1..Len(log) :
                 log[k].status = "FAIL" =>
                     /\ log[k].error.at \in {"load", "summarize", "open", "write"}
                     /\ \A s \in AllStems : cli.outdir[s] # Document(files[k])
           \* a file reported OK has one, unless a later file of the same stem
           \* has taken its place
           /\ \A k \in 1..Len(log) :
                 log[k].status = "OK" =>
                     \/ cli.outdir[PathStem(files[k])] = Document(files[k])
                     \/ \E j \in (k + 1)..Len(log) :
                           PathStem(files[j]) = PathStem(files[k])

====
